---- MODULE Spec2Model ----
(***************************************************************************)
(* A model of the comit-rs node daemon pieces found under src/:            *)
(*   - the Lightning (LND) connectors, halight (Params-carrying) and       *)
(*     hlnbtc (Params-less), as sender and as receiver;                    *)
(*   - the Announce network behaviour;                                     *)
(*   - the comit client DefaultFactory (connection cache);                 *)
(*   - the Sqlite handle and its transactions, and Sqlite::new, which      *)
(*     opens the database file and runs the migrations;                    *)
(*   - the HTTP handler that creates a Lightning swap;                     *)
(*   - the with_swap_types macro, which picks the types of a swap.         *)
(* Each subsystem has its own specification over the shared variables.     *)
(***************************************************************************)
EXTENDS Integers, Sequences, FiniteSets, TLC

(***************************************************************************)
(* Bounds of the model.                                                    *)
(***************************************************************************)
MaxPayments == 2
MaxPushes == 2
MaxCalls == 4
MaxOpens == 2
MaxExpansions == 2

VARIABLES
    \* --- the Lightning connector, LND and the driver of one side of a swap
    side,       \* which connector the driver uses: "sender" or "receiver"
    variant,    \* "halight" (Params-carrying) or "hlnbtc" (Params-less)
    conn,       \* the connector's fields (lnd_url, retry_interval_ms, ...)
    invoice,    \* LND: the invoice stored under the swap's hash, or NoInvoice
    payments,   \* LND: the list of payments ListPayments returns
    phase,      \* driver position: "opened", "accepted", "race", "done", "aborted"
    waits,      \* position of each wait_for_* future: "idle", "poll", "delay", "ok", "err", "dropped"
    emitted,    \* the events the driver has emitted, in order
    error,      \* the error that ended the driver, or NoError
    last,       \* the poll made by the step that led here (wait, response, result), or NoPoll
    retried,    \* whether some wait went on polling after a failed request (network, 5xx)
    \* --- the Announce network behaviour
    events,     \* Announce::events, the queue of pending NetworkBehaviourActions
    polled,     \* the actions Announce::poll has returned, in order
    connected,  \* the peers with an open connection (their sessions)
    confirms,   \* per peer and digest: ReceivedConfirmation events generated in the peer's session
    pushes,     \* how many actions have been queued so far
    reports,    \* per peer and error: how often the peer's handler has reported it
    enqueued,   \* the calls that queued an action so far (which, peer, event), in order
    returned,   \* what the last call of Announce::poll returned (NotPolled after another call)
    \* --- the comit client DefaultFactory
    clients,    \* DefaultFactory::clients, socket address -> client (or NoClient)
    pc,         \* per caller: where it is in client_for
    call,       \* per caller: the address asked for and the client in hand
    connections,\* per address: how many connections have been established
    given,      \* per address: the clients client_for has returned
    calls,      \* how many client_for calls have started
    attempts,   \* per address: how many TcpStream::connect calls have returned
    facres,     \* per caller: what its last client_for returned (NoResult while it runs)
    closed,     \* the clients whose connection has ended
    reused,     \* how many times client_for returned a client whose connection had ended
    \* --- the Sqlite handle (one connection behind a mutex) and its callers
    dbpc,       \* per caller: where it is in do_in_transaction
    mutex,      \* who holds the lock of Sqlite::connection, or NoHolder
    txn,        \* who opened the transaction the connection is in, or NoHolder
    rows,       \* the committed rows (keys of swaps)
    staged,     \* the rows written by the open transaction, not yet committed
    outcome,    \* per caller: what its closure returned, "ok" or "err" ("none" before)
    dbop,       \* per caller: the closure it runs (Sqlite::role's query of a key, or a write) and the value it gave
    dbret,      \* per caller: what its last call (Sqlite::role, or do_in_transaction itself) returned
    unguarded,  \* whether a closure ever ran without the lock or outside a transaction
    \* --- Sqlite::new on one path: the file system and the database file
    tree,       \* how many of the directories above the database file exist
    writable,   \* whether directories and files can be created at the path
    dbfile,     \* the database file: applied migrations, tables, rows; or NoFile
    newpc,      \* where the running call of Sqlite::new is ("idle" when none runs)
    newres,     \* what the last call of Sqlite::new that returned gave: "ok", "err" ("none" before)
    entered,    \* tree and dbfile as the running (or last) call of Sqlite::new found them
    handle,     \* whether some call has returned a handle
    opens,      \* how many calls of Sqlite::new have started
    \* --- the HTTP handler post_lightning_route_new
    requests,   \* per request: position of its handler, its body and its id
    saved,      \* what Facade2::save has stored: (id, body) entries
    announced,  \* the calls of Facade2::initiate_communication, in order
    replies,    \* per request: the reply sent, or NoReply
    generated,  \* the local ids generated so far
    \* --- with_swap_types
    expanded,   \* per evaluation of with_swap_types: the metadata and the invocations of the body
    panicked    \* whether an evaluation ended in unimplemented!()

lndVars == <<side, variant, conn, invoice, payments, phase, waits, emitted, error, last, retried>>
annVars == <<events, polled, connected, confirms, pushes, reports, enqueued, returned>>
facVars == <<clients, pc, call, connections, given, calls, attempts, facres, closed, reused>>
dbVars == <<dbpc, mutex, txn, rows, staged, outcome, unguarded, dbop, dbret>>
newVars == <<tree, writable, dbfile, newpc, newres, entered, handle, opens>>
httpVars == <<requests, saved, announced, replies, generated>>
typeVars == <<expanded, panicked>>

otherThanLnd == <<annVars, facVars, dbVars, newVars, httpVars, typeVars>>
otherThanAnnounce == <<lndVars, facVars, dbVars, newVars, httpVars, typeVars>>
otherThanFactory == <<lndVars, annVars, dbVars, newVars, httpVars, typeVars>>
otherThanSqlite == <<lndVars, annVars, facVars, newVars, httpVars, typeVars>>
otherThanNew == <<lndVars, annVars, facVars, dbVars, httpVars, typeVars>>
otherThanHttp == <<lndVars, annVars, facVars, dbVars, newVars, typeVars>>
otherThanTypes == <<lndVars, annVars, facVars, dbVars, newVars, httpVars>>

vars == <<lndVars, annVars, facVars, dbVars, newVars, httpVars, typeVars>>

(***************************************************************************)
(* Option and Result values.                                               *)
(***************************************************************************)
None == [some |-> FALSE]
Some(x) == [some |-> TRUE, val |-> x]

(***************************************************************************)
(* Secrets and hashes.  SHA-256 is a library function; here a fixed        *)
(* injective map from the modelled secrets to the modelled hashes.         *)
(***************************************************************************)
Secrets == {"s1", "s2"}
Hashes == {"h1", "h2"}
Sha256(s) == IF s = "s1" THEN "h1" ELSE "h2"

\* The secret hash every wait of the modelled swap is called with.
SwapHash == "h1"

(***************************************************************************)
(* halight::Params as the connector reads them.                            *)
(***************************************************************************)
EthereumIdentityFrom(addr) == <<"EthereumIdentity", addr>>

AgreedParams ==
    [ lightning_cltv_expiry    |-> 350,
      ethereum_identity        |-> EthereumIdentityFrom("0xaa"),
      ethereum_absolute_expiry |-> 3600,
      lightning_amount         |-> 10000 ]

InvoiceStates == {"OPEN", "SETTLED", "CANCELLED", "ACCEPTED"}
PaymentStatuses == {"UNKNOWN", "IN_FLIGHT", "SUCCEEDED", "FAILED"}

(***************************************************************************)
(* The r_preimage field of LND's invoice JSON.  A JSON null, or a JSON     *)
(* string given by what base64 makes of it: not base64 at all, or the      *)
(* bytes it decodes to (their length and, for 32 bytes, which secret).     *)
(***************************************************************************)
JsonNull == [json |-> "null"]
JsonStr(b64, len, val) == [json |-> "string", b64 |-> b64, len |-> len, val |-> val]

RawPreimages ==
    { JsonNull,
      JsonStr(TRUE, 0, "none"),        \* ""
      JsonStr(TRUE, 32, "s1"),
      JsonStr(TRUE, 32, "s2"),
      JsonStr(TRUE, 31, "none"),       \* base64 of 31 bytes
      JsonStr(FALSE, 0, "none") }      \* not base64

\* base64::decode
base64_decode(str) ==
    IF str.b64 THEN [ok |-> TRUE, len |-> str.len, val |-> str.val]
    ELSE [ok |-> FALSE]

\* deserialize_r_preimage without the check of the decoded length.
deserialize_r_preimage_without_length_check(raw) ==
    IF raw.json = "null" THEN [ok |-> TRUE, val |-> None]
    ELSE IF raw.b64 /\ raw.len = 0 THEN [ok |-> TRUE, val |-> None]
    ELSE LET vec == base64_decode(raw) IN
         IF ~vec.ok THEN [ok |-> FALSE]
         ELSE [ok |-> TRUE, val |-> Some(vec.val)]

\* deserialize_r_preimage: Result<Option<[u8; 32]>, D::Error>
deserialize_r_preimage(raw) ==
    IF raw.json = "null" THEN [ok |-> TRUE, val |-> None]
    ELSE IF raw.b64 /\ raw.len = 0 THEN [ok |-> TRUE, val |-> None]
    ELSE LET vec == base64_decode(raw) IN
         IF ~vec.ok THEN [ok |-> FALSE]
         ELSE IF vec.len # 32 THEN [ok |-> FALSE]
         ELSE [ok |-> TRUE, val |-> Some(vec.val)]

\* Secret::from_vec on decoded bytes: 32 bytes or an error.
secret_from_vec(vec) ==
    IF vec.len = 32 THEN [ok |-> TRUE, val |-> vec.val] ELSE [ok |-> FALSE]

(***************************************************************************)
(* The payment_preimage field of LND's payment JSON: a JSON null, or a     *)
(* string given by what hex decoding makes of it.                          *)
(***************************************************************************)
HexStr(hex, len, val) == [json |-> "string", hex |-> hex, len |-> len, val |-> val]

PaymentPreimages ==
    { JsonNull,
      HexStr(TRUE, 32, "s1"),
      HexStr(TRUE, 32, "s2"),
      HexStr(TRUE, 31, "none") }       \* hex of 31 bytes

\* Option<Secret> as serde deserializes it: null is None, a string is
\* Some(secret) if it is the hex of 32 bytes and an error otherwise.
deserialize_payment_preimage(raw) ==
    IF raw.json = "null" THEN [ok |-> TRUE, val |-> None]
    ELSE IF raw.hex /\ raw.len = 32 THEN [ok |-> TRUE, val |-> Some(raw.val)]
    ELSE [ok |-> FALSE]

(***************************************************************************)
(* LND's REST responses.  A response is a network failure, or a status     *)
(* code with a body; a body is text that is no JSON of the expected shape  *)
(* ("garbage"), LND's error object, an invoice or a list of payments.      *)
(***************************************************************************)
NoInvoice == [tag |-> "absent"]

\* The invoices LND may hold for the swap's hash: the one the params
\* describe, and one differing from it in each validated field.
MatchingInvoice ==
    [ tag |-> "invoice", value |-> 10000, expiry |-> 3600, cltv_expiry |-> 350,
      fallback_addr |-> "0xaa", state |-> "OPEN", r_preimage |-> JsonNull ]

InvoiceShapes ==
    { MatchingInvoice,
      [MatchingInvoice EXCEPT !.value = 10001],
      [MatchingInvoice EXCEPT !.expiry = 3601],
      [MatchingInvoice EXCEPT !.cltv_expiry = 351],
      [MatchingInvoice EXCEPT !.fallback_addr = "0xbb"] }

PaymentAmounts == {10000, 10001}

NetworkError == [net |-> "err"]
Http(status, body) == [net |-> "ok", status |-> status, body |-> body]
Garbage == [kind |-> "garbage"]
LndErrorBody == [kind |-> "lnd_error"]
InvoiceBody(inv) == [kind |-> "invoice", invoice |-> inv]
PaymentsBody(ps) == [kind |-> "payments", payments |-> ps]

\* StatusCode::is_success
is_success(status) == status >= 200 /\ status < 300

\* What GET /v1/invoice/{hash} can answer while LND holds `inv`.
InvoiceResponses(inv) ==
    { NetworkError,
      Http(500, LndErrorBody), Http(503, LndErrorBody), Http(503, Garbage),
      Http(200, Garbage) }
    \cup (IF inv = NoInvoice THEN {Http(404, LndErrorBody)} ELSE {Http(200, InvoiceBody(inv))})

\* What GET /v1/payments?include_incomplete=true can answer while LND's
\* payments are `ps`.
PaymentResponses(ps) ==
    { NetworkError,
      Http(500, LndErrorBody), Http(503, Garbage), Http(200, Garbage),
      Http(200, PaymentsBody(ps)) }

(***************************************************************************)
(* halight: the deserialized Invoice and Payment, and their validation.    *)
(***************************************************************************)
\* response.json::<Invoice>(): Invoice with r_preimage deserialized by
\* deserialize_r_preimage; any other body is a deserialization error.
halight_json_invoice(body) ==
    IF body.kind # "invoice" THEN [ok |-> FALSE]
    ELSE LET p == deserialize_r_preimage(body.invoice.r_preimage) IN
         IF ~p.ok THEN [ok |-> FALSE]
         ELSE [ok |-> TRUE, val |-> [body.invoice EXCEPT !.r_preimage = p.val]]

\* validate for Invoice with the comparison of the expiry left out.
validate_invoice_without_expiry(inv, params) ==
    /\ params.lightning_cltv_expiry = inv.cltv_expiry
    /\ params.ethereum_identity = EthereumIdentityFrom(inv.fallback_addr)
    /\ params.lightning_amount = inv.value

\* impl ValidateParams for Invoice
validate_invoice(inv, params) ==
    /\ params.lightning_cltv_expiry = inv.cltv_expiry
    /\ params.ethereum_identity = EthereumIdentityFrom(inv.fallback_addr)
    /\ params.ethereum_absolute_expiry = inv.expiry
    /\ params.lightning_amount = inv.value

\* impl ValidateParams for Payment
validate_payment(payment, params) ==
    params.lightning_amount = payment.value_sat

\* Payment as serde deserializes it from one element of the list.
json_payment(p) ==
    LET pre == deserialize_payment_preimage(p.payment_preimage) IN
    IF pre.ok THEN [ok |-> TRUE, val |-> [p EXCEPT !.payment_preimage = pre.val]]
    ELSE [ok |-> FALSE]

\* response.json::<PaymentsResponse>(): `payments` is an Option, so LND's
\* error object (it has no `payments` key) deserializes to no payments; a
\* list deserializes if every payment of it does.
json_payments(body) ==
    IF body.kind = "payments"
    THEN IF \A i \in DOMAIN body.payments : json_payment(body.payments[i]).ok
         THEN [ok |-> TRUE,
               val |-> [i \in DOMAIN body.payments |-> json_payment(body.payments[i]).val]]
         ELSE [ok |-> FALSE]
    ELSE IF body.kind = "lnd_error" THEN [ok |-> TRUE, val |-> <<>>]
    ELSE [ok |-> FALSE]

Ok(x) == [tag |-> "ok", val |-> x]
Err(e) == [tag |-> "err", err |-> e]

\* Iterator::find: the first element of `seq` satisfying Test, as an Option.
RECURSIVE FirstIndex(_, _, _, _)
FirstIndex(seq, hash, status, i) ==
    IF i > Len(seq) THEN 0
    ELSE IF seq[i].payment_hash = hash /\ seq[i].status = status THEN i
    ELSE FirstIndex(seq, hash, status, i + 1)

\* find with the comparison of the payment hash left out.
find_first_payment_any_hash(seq, hash, status) ==
    LET idx == {i \in DOMAIN seq : seq[i].status = status} IN
    IF idx = {} THEN None
    ELSE Some(seq[CHOOSE i \in idx : \A j \in idx : i <= j])

find_first_payment(seq, hash, status) ==
    LET i == FirstIndex(seq, hash, status, 1) IN
    IF i = 0 THEN None ELSE Some(seq[i])

\* find_payment that validates every payment of the swap's hash in the list.
halight_find_payment_validating_every(resp, secret_hash, status, params) ==
    IF resp.net = "err" THEN Err("network")
    ELSE LET response == json_payments(resp.body) IN
         IF ~response.ok THEN Err("deserialize")
         ELSE IF \E i \in DOMAIN response.val :
                    /\ response.val[i].payment_hash = secret_hash
                    /\ ~validate_payment(response.val[i], params)
              THEN Err("validation")
              ELSE Ok(find_first_payment(response.val, secret_hash, status))

\* halight LndConnectorAsSender::find_payment
halight_find_payment(resp, secret_hash, status, params) ==
    IF resp.net = "err" THEN Err("network")
    ELSE LET response == json_payments(resp.body) IN
         IF ~response.ok THEN Err("deserialize")
         ELSE LET payment == find_first_payment(response.val, secret_hash, status) IN
              IF payment.some /\ ~validate_payment(payment.val, params)
              THEN Err("validation")
              ELSE Ok(payment)

\* find_payment that takes the first payment of the status, whatever its hash.
hlnbtc_find_payment_any_hash(resp, secret_hash, status) ==
    IF resp.net = "err" THEN Err("network")
    ELSE LET response == json_payments(resp.body) IN
         IF ~response.ok THEN Err("deserialize")
         ELSE Ok(find_first_payment_any_hash(response.val, secret_hash, status))

\* hlnbtc LndConnectorAsSender::find_payment
hlnbtc_find_payment(resp, secret_hash, status) ==
    IF resp.net = "err" THEN Err("network")
    ELSE LET response == json_payments(resp.body) IN
         IF ~response.ok THEN Err("deserialize")
         ELSE Ok(find_first_payment(response.val, secret_hash, status))

\* find_invoice without the shortcut for INTERNAL_SERVER_ERROR.
halight_find_invoice_without_500_shortcut(resp, params, expected_state) ==
    IF resp.net = "err" THEN Err("network")
    ELSE IF resp.status = 404 THEN Ok(None)
    ELSE IF ~is_success(resp.status)
         THEN IF resp.body.kind = "lnd_error" THEN Err("lnd") ELSE Err("deserialize")
    ELSE LET inv == halight_json_invoice(resp.body) IN
         IF ~inv.ok THEN Err("deserialize")
         ELSE IF ~validate_invoice(inv.val, params) THEN Err("validation")
         ELSE IF inv.val.state = expected_state THEN Ok(Some(inv.val))
         ELSE Ok(None)

\* find_invoice that looks at the state of the invoice before it validates.
halight_find_invoice_state_first(resp, params, expected_state) ==
    IF resp.net = "err" THEN Err("network")
    ELSE IF resp.status = 404 THEN Ok(None)
    ELSE IF resp.status = 500 THEN Ok(None)
    ELSE IF ~is_success(resp.status)
         THEN IF resp.body.kind = "lnd_error" THEN Err("lnd") ELSE Err("deserialize")
    ELSE LET inv == halight_json_invoice(resp.body) IN
         IF ~inv.ok THEN Err("deserialize")
         ELSE IF inv.val.state # expected_state THEN Ok(None)
         ELSE IF ~validate_invoice(inv.val, params) THEN Err("validation")
         ELSE Ok(Some(inv.val))

\* halight LndConnectorAsReceiver::find_invoice
halight_find_invoice(resp, params, expected_state) ==
    IF resp.net = "err" THEN Err("network")
    ELSE IF resp.status = 404 THEN Ok(None)
    ELSE IF resp.status = 500 THEN Ok(None)
    ELSE IF ~is_success(resp.status)
         THEN IF resp.body.kind = "lnd_error" THEN Err("lnd") ELSE Err("deserialize")
    ELSE LET inv == halight_json_invoice(resp.body) IN
         IF ~inv.ok THEN Err("deserialize")
         ELSE IF ~validate_invoice(inv.val, params) THEN Err("validation")
         ELSE IF inv.val.state = expected_state THEN Ok(Some(inv.val))
         ELSE Ok(None)

\* hlnbtc response.json::<Invoice>(): r_preimage stays an Option<String>.
hlnbtc_json_invoice(body) ==
    IF body.kind # "invoice" THEN [ok |-> FALSE]
    ELSE [ok |-> TRUE,
          val |-> [body.invoice EXCEPT
                     !.r_preimage = IF @.json = "null" THEN None ELSE Some(@)]]

\* find_invoice without the early return for NOT_FOUND.
hlnbtc_find_invoice_without_404(resp, expected_state) ==
    IF resp.net = "err" THEN Err("network")
    ELSE IF resp.status = 500 THEN Ok(None)
    ELSE IF ~is_success(resp.status)
         THEN IF resp.body.kind = "lnd_error" THEN Err("lnd") ELSE Err("deserialize")
    ELSE LET inv == hlnbtc_json_invoice(resp.body) IN
         IF ~inv.ok THEN Err("deserialize")
         ELSE IF inv.val.state = expected_state THEN Ok(Some(inv.val))
         ELSE Ok(None)

\* hlnbtc LndConnectorAsReceiver::find_invoice
hlnbtc_find_invoice(resp, expected_state) ==
    IF resp.net = "err" THEN Err("network")
    ELSE IF resp.status = 404 THEN Ok(None)
    ELSE IF resp.status = 500 THEN Ok(None)
    ELSE IF ~is_success(resp.status)
         THEN IF resp.body.kind = "lnd_error" THEN Err("lnd") ELSE Err("deserialize")
    ELSE LET inv == hlnbtc_json_invoice(resp.body) IN
         IF ~inv.ok THEN Err("deserialize")
         ELSE IF inv.val.state = expected_state THEN Ok(Some(inv.val))
         ELSE Ok(None)


(***************************************************************************)
(* The wait_for_* operations.  One poll is one iteration of the wait's     *)
(* loop: Pending (delay, then poll again), Ok(event) or Err(error).        *)
(***************************************************************************)
Waits == {"opened", "accepted", "settled", "cancelled"}

Pending == [tag |-> "pending"]

Opened == [type |-> "Opened"]
Accepted == [type |-> "Accepted"]
Cancelled == [type |-> "Cancelled"]
Settled(secret) == [type |-> "Settled", secret |-> secret]

\* wait_for_accepted returning what wait_for_opened returns.
wait_event_accepted_as_opened(k) ==
    CASE k = "opened" -> Opened
      [] k = "accepted" -> Opened
      [] k = "cancelled" -> Cancelled

\* The value a wait returns once its loop has ended (Ok(Opened),
\* Ok(Accepted), Ok(Cancelled)); wait_for_settled builds Settled { secret }.
wait_event(k) ==
    CASE k = "opened" -> Opened
      [] k = "accepted" -> Accepted
      [] k = "cancelled" -> Cancelled

\* wait_for_cancelled polling for the status wait_for_accepted polls for.
sender_status_cancelled_on_in_flight(k) ==
    CASE k = "accepted" -> "IN_FLIGHT"
      [] k = "settled" -> "SUCCEEDED"
      [] k = "cancelled" -> "IN_FLIGHT"

\* The PaymentStatus each sender wait polls for.
sender_status(k) ==
    CASE k = "accepted" -> "IN_FLIGHT"
      [] k = "settled" -> "SUCCEEDED"
      [] k = "cancelled" -> "FAILED"

\* wait_for_accepted polling for the state wait_for_opened polls for.
receiver_state_accepted_on_open(k) ==
    CASE k = "opened" -> "OPEN"
      [] k = "accepted" -> "OPEN"
      [] k = "settled" -> "SETTLED"
      [] k = "cancelled" -> "CANCELLED"

\* The InvoiceState each receiver wait polls for.
receiver_state(k) ==
    CASE k = "opened" -> "OPEN"
      [] k = "accepted" -> "ACCEPTED"
      [] k = "settled" -> "SETTLED"
      [] k = "cancelled" -> "CANCELLED"

\* wait_for_settled that makes up a secret when the payment carries none.
sender_settled_without_check(payment) ==
    Ok(Settled(IF payment.payment_preimage.some THEN payment.payment_preimage.val
               ELSE "s1"))

\* LndConnectorAsSender::wait_for_settled, after the loop (both variants).
sender_settled(payment) ==
    IF payment.payment_preimage.some
    THEN Ok(Settled(payment.payment_preimage.val))
    ELSE Err("no_preimage")

\* halight LndConnectorAsReceiver::wait_for_settled, after the loop.
halight_receiver_settled(inv) ==
    IF ~inv.r_preimage.some THEN Err("no_preimage")
    ELSE LET secret == secret_from_vec([len |-> 32, val |-> inv.r_preimage.val]) IN
         IF secret.ok THEN Ok(Settled(secret.val)) ELSE Err("secret")

\* hlnbtc LndConnectorAsReceiver::wait_for_settled, after the loop.
hlnbtc_receiver_settled(inv) ==
    IF ~inv.r_preimage.some THEN Err("no_preimage")
    ELSE LET vec == base64_decode(inv.r_preimage.val) IN
         IF ~vec.ok THEN Err("base64")
         ELSE LET secret == secret_from_vec(vec) IN
              IF secret.ok THEN Ok(Settled(secret.val)) ELSE Err("secret")

\* A sender wait that gives up when it has not found the payment.
sender_poll_giving_up(v, k, resp, secret_hash, params) ==
    LET found == IF v = "halight"
                 THEN halight_find_payment(resp, secret_hash, sender_status(k), params)
                 ELSE hlnbtc_find_payment(resp, secret_hash, sender_status(k)) IN
    IF found.tag = "err" THEN found
    ELSE IF ~found.val.some THEN Err("timeout")
    ELSE IF k = "settled" THEN sender_settled(found.val.val)
    ELSE Ok(wait_event(k))

\* One iteration of a sender wait (wait_for_accepted, _settled, _cancelled).
sender_poll(v, k, resp, secret_hash, params) ==
    LET found == IF v = "halight"
                 THEN halight_find_payment(resp, secret_hash, sender_status(k), params)
                 ELSE hlnbtc_find_payment(resp, secret_hash, sender_status(k)) IN
    IF found.tag = "err" THEN found
    ELSE IF ~found.val.some THEN Pending
    ELSE IF k = "settled" THEN sender_settled(found.val.val)
    ELSE Ok(wait_event(k))

\* One iteration of a receiver wait (all four).
receiver_poll(v, k, resp, params) ==
    LET found == IF v = "halight"
                 THEN halight_find_invoice(resp, params, receiver_state(k))
                 ELSE hlnbtc_find_invoice(resp, receiver_state(k)) IN
    IF found.tag = "err" THEN found
    ELSE IF ~found.val.some THEN Pending
    ELSE IF k = "settled"
         THEN IF v = "halight" THEN halight_receiver_settled(found.val.val)
              ELSE hlnbtc_receiver_settled(found.val.val)
    ELSE Ok(wait_event(k))

(***************************************************************************)
(* The connector and the protocol driver of one side of one swap.          *)
(***************************************************************************)
\* From<LndConnectorParams>: the connector's fields.
NewConnector ==
    [ lnd_url |-> "https://localhost:8080", retry_interval_ms |-> 100,
      certificate |-> "cert", macaroon |-> "macaroon" ]

NoError == "none"
NoPoll == [wait |-> "none"]

\* The driver: wait_for_opened, wait_for_accepted, then the race of
\* wait_for_settled against wait_for_cancelled.
StartWaits == [k \in Waits |-> IF k = "opened" THEN "poll" ELSE "idle"]

\* A wait returned Ok(event): the driver emits it and starts what follows;
\* in the race the other wait is dropped.
DriverEmits(k, event) ==
    /\ emitted' = Append(emitted, event)
    /\ error' = error
    /\ CASE k = "opened" ->
              /\ phase' = "accepted"
              /\ waits' = [waits EXCEPT !["opened"] = "ok", !["accepted"] = "poll"]
         [] k = "accepted" ->
              /\ phase' = "race"
              /\ waits' = [waits EXCEPT !["accepted"] = "ok",
                                        !["settled"] = "poll", !["cancelled"] = "poll"]
         [] k \in {"settled", "cancelled"} ->
              /\ phase' = "done"
              /\ waits' = [j \in Waits |->
                             IF j = k THEN "ok"
                             ELSE IF j \in {"settled", "cancelled"} THEN "dropped"
                             ELSE waits[j]]

\* A wait returned Err(e): the driver stops with that error.
DriverAborts(k, e) ==
    /\ emitted' = emitted
    /\ error' = e
    /\ phase' = "aborted"
    /\ waits' = [j \in Waits |->
                   IF j = k THEN "err"
                   ELSE IF waits[j] \in {"poll", "delay"} THEN "dropped"
                   ELSE waits[j]]

\* What the driver does with the result of one loop iteration of wait k.
AfterPoll(k, r) ==
    CASE r.tag = "pending" ->
              /\ waits' = [waits EXCEPT ![k] = "delay"]
              /\ UNCHANGED <<phase, emitted, error>>
      [] r.tag = "ok" -> DriverEmits(k, r.val)
      [] r.tag = "err" -> DriverAborts(k, r.err)

\* A response that is a failed request: no answer, or a 5xx status.
IsFailure(resp) == resp.net = "err" \/ resp.status >= 500

\* A poll that uses up the macaroon of the connector.
poll_connector_dropping_macaroon(c) == [c EXCEPT !.macaroon = "none"]

\* A poll that keeps a backoff in the connector.
poll_connector_with_backoff(c) ==
    [c EXCEPT !.retry_interval_ms = IF @ < 400 THEN 2 * @ ELSE @]

\* find_payment and find_invoice take &self: polling leaves the connector's
\* fields as they are.
poll_connector(c) == c

\* The params a wait may be called with.
WaitParams == {AgreedParams, [AgreedParams EXCEPT !.lightning_amount = 10001]}

\* wait_for_opened of the sender that looks for the payment like the other
\* waits do: nothing found yet.
sender_wait_for_opened_polling(secret_hash, params) == Pending

\* LndConnectorAsSender::wait_for_opened(_secret_hash, _params): Ok(Opened).
sender_wait_for_opened(secret_hash, params) == Ok(wait_event("opened"))

\* LndConnectorAsSender::wait_for_opened: Ok(Opened) at once, no request.
SenderWaitForOpened ==
    /\ side = "sender"
    /\ waits["opened"] = "poll"
    /\ \E h \in Hashes, p \in WaitParams :
         AfterPoll("opened", sender_wait_for_opened(h, p))
    /\ UNCHANGED <<side, variant, conn, invoice, payments>>
    /\ last' = NoPoll
    /\ UNCHANGED retried
    /\ UNCHANGED otherThanLnd

\* One poll of a sender wait, answered by one of `responses`: GET
\* /v1/payments and the rest of the iteration.
SenderPollFrom(k, responses) ==
    /\ side = "sender"
    /\ k # "opened"
    /\ waits[k] = "poll"
    /\ \E resp \in responses :
         LET r == sender_poll(variant, k, resp, SwapHash, AgreedParams) IN
         /\ last' = [wait |-> k, resp |-> resp, result |-> r]
         /\ retried' = (retried \/ (IsFailure(resp) /\ r = Pending))
         /\ AfterPoll(k, r)
    /\ conn' = poll_connector(conn)
    /\ UNCHANGED <<side, variant, invoice, payments>>
    /\ UNCHANGED otherThanLnd

SenderPoll(k) == SenderPollFrom(k, PaymentResponses(payments))

\* One poll of a receiver wait, answered by one of `responses`: GET
\* /v1/invoice/{hash} and the rest of the iteration.
ReceiverPollFrom(k, responses) ==
    /\ side = "receiver"
    /\ waits[k] = "poll"
    /\ \E resp \in responses :
         LET r == receiver_poll(variant, k, resp, AgreedParams) IN
         /\ last' = [wait |-> k, resp |-> resp, result |-> r]
         /\ retried' = (retried \/ (IsFailure(resp) /\ r = Pending))
         /\ AfterPoll(k, r)
    /\ conn' = poll_connector(conn)
    /\ UNCHANGED <<side, variant, invoice, payments>>
    /\ UNCHANGED otherThanLnd

ReceiverPoll(k) == ReceiverPollFrom(k, InvoiceResponses(invoice))

\* tokio::time::delay_for(retry_interval_ms) elapsed: the wait polls again.
Delay(k) ==
    /\ waits[k] = "delay"
    /\ waits' = [waits EXCEPT ![k] = "poll"]
    /\ UNCHANGED <<side, variant, conn, invoice, payments, phase, emitted, error>>
    /\ last' = NoPoll
    /\ UNCHANGED retried
    /\ UNCHANGED otherThanLnd

(***************************************************************************)
(* LND itself: what happens to the invoice and to the payments.            *)
(***************************************************************************)
LndAddInvoice ==
    /\ side = "receiver"
    /\ invoice = NoInvoice
    /\ invoice' \in InvoiceShapes
    /\ UNCHANGED <<side, variant, conn, payments, phase, waits, emitted, error>>
    /\ last' = NoPoll
    /\ UNCHANGED retried
    /\ UNCHANGED otherThanLnd

LndAcceptInvoice ==
    /\ invoice # NoInvoice
    /\ invoice.state = "OPEN"
    /\ invoice' = [invoice EXCEPT !.state = "ACCEPTED"]
    /\ UNCHANGED <<side, variant, conn, payments, phase, waits, emitted, error>>
    /\ last' = NoPoll
    /\ UNCHANGED retried
    /\ UNCHANGED otherThanLnd

LndSettleInvoice ==
    /\ invoice # NoInvoice
    /\ invoice.state \in {"OPEN", "ACCEPTED"}
    /\ \E raw \in RawPreimages :
         invoice' = [invoice EXCEPT !.state = "SETTLED", !.r_preimage = raw]
    /\ UNCHANGED <<side, variant, conn, payments, phase, waits, emitted, error>>
    /\ last' = NoPoll
    /\ UNCHANGED retried
    /\ UNCHANGED otherThanLnd

LndCancelInvoice ==
    /\ invoice # NoInvoice
    /\ invoice.state \in {"OPEN", "ACCEPTED"}
    /\ invoice' = [invoice EXCEPT !.state = "CANCELLED"]
    /\ UNCHANGED <<side, variant, conn, payments, phase, waits, emitted, error>>
    /\ last' = NoPoll
    /\ UNCHANGED retried
    /\ UNCHANGED otherThanLnd

LndSendPayment ==
    /\ side = "sender"
    /\ Len(payments) < MaxPayments
    /\ \E h \in Hashes, a \in PaymentAmounts, st \in {"UNKNOWN", "IN_FLIGHT"} :
         payments' = Append(payments,
             [ value_sat |-> a, payment_preimage |-> JsonNull,
               status |-> st, payment_hash |-> h ])
    /\ UNCHANGED <<side, variant, conn, invoice, phase, waits, emitted, error>>
    /\ last' = NoPoll
    /\ UNCHANGED retried
    /\ UNCHANGED otherThanLnd

LndPaymentInFlight(i) ==
    /\ i \in DOMAIN payments
    /\ payments[i].status = "UNKNOWN"
    /\ payments' = [payments EXCEPT ![i].status = "IN_FLIGHT"]
    /\ UNCHANGED <<side, variant, conn, invoice, phase, waits, emitted, error>>
    /\ last' = NoPoll
    /\ UNCHANGED retried
    /\ UNCHANGED otherThanLnd

LndPaymentSucceeds(i) ==
    /\ i \in DOMAIN payments
    /\ payments[i].status = "IN_FLIGHT"
    /\ \E pre \in PaymentPreimages :
         payments' = [payments EXCEPT ![i].status = "SUCCEEDED",
                                      ![i].payment_preimage = pre]
    /\ UNCHANGED <<side, variant, conn, invoice, phase, waits, emitted, error>>
    /\ last' = NoPoll
    /\ UNCHANGED retried
    /\ UNCHANGED otherThanLnd

LndPaymentFails(i) ==
    /\ i \in DOMAIN payments
    /\ payments[i].status = "IN_FLIGHT"
    /\ payments' = [payments EXCEPT ![i].status = "FAILED"]
    /\ UNCHANGED <<side, variant, conn, invoice, phase, waits, emitted, error>>
    /\ last' = NoPoll
    /\ UNCHANGED retried
    /\ UNCHANGED otherThanLnd

\* The connector just constructed, LND without the swap's invoice or
\* payment, the driver about to call wait_for_opened.
LndStart ==
    /\ conn = NewConnector
    /\ invoice = NoInvoice
    /\ payments = <<>>
    /\ phase = "opened"
    /\ waits = StartWaits
    /\ emitted = <<>>
    /\ error = NoError
    /\ last = NoPoll
    /\ retried = FALSE

LndInit ==
    /\ side \in {"sender", "receiver"}
    /\ variant \in {"halight", "hlnbtc"}
    /\ LndStart

\* The connector part of the state while another subsystem is looked at.
LndIdle ==
    /\ side = "receiver"
    /\ variant = "halight"
    /\ LndStart

LndNext ==
    \/ SenderWaitForOpened
    \/ \E k \in Waits : SenderPoll(k)
    \/ \E k \in Waits : ReceiverPoll(k)
    \/ \E k \in Waits : Delay(k)
    \/ LndAddInvoice
    \/ LndAcceptInvoice
    \/ LndSettleInvoice
    \/ LndCancelInvoice
    \/ LndSendPayment
    \/ \E i \in 1..MaxPayments : LndPaymentInFlight(i)
    \/ \E i \in 1..MaxPayments : LndPaymentSucceeds(i)
    \/ \E i \in 1..MaxPayments : LndPaymentFails(i)



(***************************************************************************)
(* The Announce network behaviour.                                         *)
(***************************************************************************)
Peers == {"p1", "p2"}
Digests == {"d1", "d2"}
SwapIds == {"id1", "id2"}

\* HandlerEvent, as the handler reports it.
HandlerReceivedConfirmation(swap_id, swap_digest) ==
    [kind |-> "ReceivedConfirmation", swap_id |-> swap_id, swap_digest |-> swap_digest]
HandlerAwaitingConfirmation(sender) == [kind |-> "AwaitingConfirmation", io |-> sender]
HandlerError(e) == [kind |-> "Error", error |-> e]

\* handler::Error
HandlerErrors == {"timeout", "io"}

\* ReplySubstream<NegotiatedSubstream>
Substreams == {"sub1", "sub2"}

HandlerEvents ==
    {HandlerReceivedConfirmation(id, d) : id \in SwapIds, d \in Digests}
    \cup {HandlerAwaitingConfirmation(io) : io \in Substreams}
    \cup {HandlerError(e) : e \in HandlerErrors}

\* NetworkBehaviourAction
SendEvent(peer_id, event) == [action |-> "SendEvent", peer_id |-> peer_id, event |-> event]
GenerateEvent(event) == [action |-> "GenerateEvent", event |-> event]

\* OutboundConfig: the swap digest to announce.
OutboundConfig(swap_digest) == [swap_digest |-> swap_digest]

\* The BehaviourEvent of inject_node_event with `peer` left at the first peer.
behaviour_event_of_first_peer(peer_id, event) ==
    CASE event.kind = "ReceivedConfirmation" ->
             [ kind |-> "ReceivedConfirmation", peer |-> "p1",
               swap_id |-> event.swap_id, swap_digest |-> event.swap_digest ]
      [] event.kind = "AwaitingConfirmation" ->
             [kind |-> "AwaitingConfirmation", peer |-> "p1", io |-> event.io]
      [] event.kind = "Error" ->
             [kind |-> "Error", peer |-> "p1", error |-> event.error]

\* The BehaviourEvent inject_node_event builds from a handler event.
behaviour_event(peer_id, event) ==
    CASE event.kind = "ReceivedConfirmation" ->
             [ kind |-> "ReceivedConfirmation", peer |-> peer_id,
               swap_id |-> event.swap_id, swap_digest |-> event.swap_digest ]
      [] event.kind = "AwaitingConfirmation" ->
             [kind |-> "AwaitingConfirmation", peer |-> peer_id, io |-> event.io]
      [] event.kind = "Error" ->
             [kind |-> "Error", peer |-> peer_id, error |-> event.error]

\* inject_node_event that keeps the handler's errors to itself.
inject_node_event_queue_without_errors(q, peer_id, event) ==
    IF event.kind = "Error" THEN q
    ELSE Append(q, GenerateEvent(behaviour_event(peer_id, event)))

\* The queue after Announce::inject_node_event(peer_id, event).
inject_node_event_queue(q, peer_id, event) ==
    Append(q, GenerateEvent(behaviour_event(peer_id, event)))

\* start_announce_protocol that queues nothing for an announcement that is
\* queued already.
start_announce_protocol_queue_once(q, outbound_config, peer_id) ==
    IF \E i \in DOMAIN q : q[i] = SendEvent(peer_id, outbound_config) THEN q
    ELSE Append(q, SendEvent(peer_id, outbound_config))

\* The queue after Announce::start_announce_protocol(outbound_config, peer_id).
start_announce_protocol_queue(q, outbound_config, peer_id) ==
    Append(q, SendEvent(peer_id, outbound_config))

\* inject_disconnected that drops what is queued for or from the peer.
inject_disconnected_queue_purging(q, peer_id) ==
    SelectSeq(q, LAMBDA a :
        IF a.action = "SendEvent" THEN a.peer_id # peer_id ELSE a.event.peer # peer_id)

\* The queue after inject_connected and after inject_disconnected: their
\* bodies are empty.
inject_connected_queue(q, peer_id) == q
inject_disconnected_queue(q, peer_id) == q

\* Poll<NetworkBehaviourAction>, and no call of poll yet.
PollPending == [poll |-> "Pending"]
PollReady(event) == [poll |-> "Ready", event |-> event]
NotPolled == [poll |-> "none"]

\* poll that takes the action queued last.
announce_poll_from_back(q) ==
    IF q # <<>>
    THEN [ret |-> PollReady(q[Len(q)]), rest |-> SubSeq(q, 1, Len(q) - 1)]
    ELSE [ret |-> PollPending, rest |-> q]

\* Announce::poll: what it returns and the queue it leaves; pop_front gives
\* the action queued first.
announce_poll(q) ==
    IF q # <<>>
    THEN [ret |-> PollReady(Head(q)), rest |-> Tail(q)]
    ELSE [ret |-> PollPending, rest |-> q]

\* Announce::default
AnnounceDefault ==
    /\ events = <<>>
    /\ polled = <<>>
    /\ connected = {}
    /\ confirms = [p \in Peers |-> [d \in Digests |-> 0]]
    /\ pushes = 0
    /\ reports = [p \in Peers |-> [e \in HandlerErrors |-> 0]]
    /\ enqueued = <<>>
    /\ returned = NotPolled

\* Announce::start_announce_protocol
start_announce_protocol(outbound_config, peer_id) ==
    /\ pushes < MaxPushes
    /\ events' = start_announce_protocol_queue(events, outbound_config, peer_id)
    /\ enqueued' = Append(enqueued,
           [call |-> "start_announce_protocol", peer_id |-> peer_id, event |-> outbound_config])
    /\ pushes' = pushes + 1
    /\ returned' = NotPolled
    /\ UNCHANGED <<polled, connected, confirms, reports>>
    /\ UNCHANGED otherThanAnnounce

\* Announce::inject_connected: nothing to do in the behaviour.
inject_connected(peer_id) ==
    /\ peer_id \notin connected
    /\ connected' = connected \cup {peer_id}
    /\ events' = inject_connected_queue(events, peer_id)
    /\ returned' = NotPolled
    /\ UNCHANGED <<polled, confirms, pushes, reports, enqueued>>
    /\ UNCHANGED otherThanAnnounce

\* Announce::inject_disconnected: nothing to do in the behaviour; the
\* peer's session is over.
inject_disconnected(peer_id) ==
    /\ peer_id \in connected
    /\ connected' = connected \ {peer_id}
    /\ confirms' = [confirms EXCEPT ![peer_id] = [d \in Digests |-> 0]]
    /\ events' = inject_disconnected_queue(events, peer_id)
    /\ returned' = NotPolled
    /\ UNCHANGED <<polled, pushes, reports, enqueued>>
    /\ UNCHANGED otherThanAnnounce

\* Announce::inject_node_event: the handler of a connected peer reports.
inject_node_event(peer_id, event) ==
    /\ peer_id \in connected
    /\ pushes < MaxPushes
    /\ events' = inject_node_event_queue(events, peer_id, event)
    /\ enqueued' = Append(enqueued,
           [call |-> "inject_node_event", peer_id |-> peer_id, event |-> event])
    /\ pushes' = pushes + 1
    /\ confirms' =
         LET new == events'[Len(events')] IN
         IF Len(events') = Len(events) + 1 /\ new.action = "GenerateEvent"
            /\ new.event.kind = "ReceivedConfirmation"
         THEN [confirms EXCEPT ![new.event.peer][new.event.swap_digest] = @ + 1]
         ELSE confirms
    /\ reports' = IF event.kind = "Error"
                  THEN [reports EXCEPT ![peer_id][event.error] = @ + 1]
                  ELSE reports
    /\ returned' = NotPolled
    /\ UNCHANGED <<polled, connected>>
    /\ UNCHANGED otherThanAnnounce

\* Announce::poll: Poll::Ready(event) with the action at the front of the
\* queue, Poll::Pending when there is none.
poll ==
    /\ LET r == announce_poll(events) IN
       /\ returned' = r.ret
       /\ events' = r.rest
       /\ polled' = IF r.ret = PollPending THEN polled ELSE Append(polled, r.ret.event)
    /\ UNCHANGED <<connected, confirms, pushes, reports, enqueued>>
    /\ UNCHANGED otherThanAnnounce

AnnounceNext ==
    \/ \E d \in Digests, p \in Peers : start_announce_protocol(OutboundConfig(d), p)
    \/ \E p \in Peers : inject_connected(p)
    \/ \E p \in Peers : inject_disconnected(p)
    \/ \E p \in Peers, e \in HandlerEvents : inject_node_event(p, e)
    \/ poll

(***************************************************************************)
(* The comit client DefaultFactory: a cache of one client per address.     *)
(***************************************************************************)
Callers == {"t1", "t2"}
SocketAddrs == {"a1", "a2"}

NoClient == 0
NoCall == [addr |-> "none", client |-> NoClient]
NoResult == [tag |-> "none"]

\* The client a new connection yields: clients are told apart by the
\* number of the connection they were made for.
NewClient == 1 + connections["a1"] + connections["a2"]

\* self.clients.read().unwrap().get(&addr).map(Clone::clone)
existing_client(cache, addr) == cache[addr]

\* client_for that forgets to put the new client into the cache.
insert_client_forgotten(cache, addr, client) == cache

\* clients.insert(addr, client.clone())
insert_client(cache, addr, client) == [cache EXCEPT ![addr] = client]

\* A failed connect that leaves an entry without a connection in the cache.
connect_failed_cache_poisoned(cache, addr) == [cache EXCEPT ![addr] = MaxCalls + 1]

\* The cache after TcpStream::connect(..).wait()? failed: `?` returns
\* before anything is inserted.
connect_failed_cache(cache, addr) == cache

\* A connection whose end takes its client out of the cache.
connection_closed_cache_evicting(cache, client) ==
    [a \in DOMAIN cache |-> IF cache[a] = client THEN NoClient ELSE cache[a]]

\* The cache after the spawned connection_future ended: its map_err logs
\* the error and no more.
connection_closed_cache(cache, client) == cache

\* DefaultFactory::default
FactoryDefault ==
    /\ clients = [a \in SocketAddrs |-> NoClient]
    /\ pc = [t \in Callers |-> "idle"]
    /\ call = [t \in Callers |-> NoCall]
    /\ connections = [a \in SocketAddrs |-> 0]
    /\ given = [a \in SocketAddrs |-> {}]
    /\ calls = 0
    /\ attempts = [a \in SocketAddrs |-> 0]
    /\ facres = [t \in Callers |-> NoResult]
    /\ closed = {}
    /\ reused = 0

\* A caller enters client_for(addr).
ClientForCall(t, addr) ==
    /\ pc[t] = "idle"
    /\ calls < MaxCalls
    /\ calls' = calls + 1
    /\ pc' = [pc EXCEPT ![t] = "lookup"]
    /\ call' = [call EXCEPT ![t] = [addr |-> addr, client |-> NoClient]]
    /\ facres' = [facres EXCEPT ![t] = NoResult]
    /\ UNCHANGED <<clients, connections, given, attempts, closed, reused>>
    /\ UNCHANGED otherThanFactory

\* The lookup under the read lock; Some(client) => Ok(client.clone()).
ClientForLookup(t) ==
    /\ pc[t] = "lookup"
    /\ LET found == existing_client(clients, call[t].addr) IN
       IF found = NoClient
       THEN /\ pc' = [pc EXCEPT ![t] = "connect"]
            /\ UNCHANGED <<call, given, facres, reused>>
       ELSE /\ pc' = [pc EXCEPT ![t] = "idle"]
            /\ call' = [call EXCEPT ![t] = NoCall]
            /\ given' = [given EXCEPT ![call[t].addr] = @ \cup {found}]
            /\ facres' = [facres EXCEPT ![t] = Ok(found)]
            /\ reused' = IF found \in closed THEN reused + 1 ELSE reused
    /\ UNCHANGED <<clients, connections, calls, attempts, closed>>
    /\ UNCHANGED otherThanFactory

\* TcpStream::connect(..).wait() succeeded: the connection is started and
\* the client made.
ClientForConnected(t) ==
    /\ pc[t] = "connect"
    /\ attempts' = [attempts EXCEPT ![call[t].addr] = @ + 1]
    /\ connections' = [connections EXCEPT ![call[t].addr] = @ + 1]
    /\ call' = [call EXCEPT ![t].client = NewClient]
    /\ pc' = [pc EXCEPT ![t] = "insert"]
    /\ UNCHANGED <<clients, given, calls, facres, closed, reused>>
    /\ UNCHANGED otherThanFactory

\* TcpStream::connect(..).wait()? failed: Err(FactoryError::Connection).
ClientForConnectFailed(t) ==
    /\ pc[t] = "connect"
    /\ attempts' = [attempts EXCEPT ![call[t].addr] = @ + 1]
    /\ clients' = connect_failed_cache(clients, call[t].addr)
    /\ facres' = [facres EXCEPT ![t] = Err("Connection")]
    /\ pc' = [pc EXCEPT ![t] = "idle"]
    /\ call' = [call EXCEPT ![t] = NoCall]
    /\ UNCHANGED <<connections, given, calls, closed, reused>>
    /\ UNCHANGED otherThanFactory

\* The insert under the write lock, and Ok(client).
ClientForInsert(t) ==
    /\ pc[t] = "insert"
    /\ clients' = insert_client(clients, call[t].addr, call[t].client)
    /\ given' = [given EXCEPT ![call[t].addr] = @ \cup {call[t].client}]
    /\ facres' = [facres EXCEPT ![t] = Ok(call[t].client)]
    /\ pc' = [pc EXCEPT ![t] = "idle"]
    /\ call' = [call EXCEPT ![t] = NoCall]
    /\ UNCHANGED <<connections, calls, attempts, closed, reused>>
    /\ UNCHANGED otherThanFactory

\* The connection_future spawned for a client ends ("prematurely closed").
ConnectionClosed(client) ==
    /\ client <= connections["a1"] + connections["a2"]
    /\ client \notin closed
    /\ closed' = closed \cup {client}
    /\ clients' = connection_closed_cache(clients, client)
    /\ UNCHANGED <<pc, call, connections, given, calls, attempts, facres, reused>>
    /\ UNCHANGED otherThanFactory

\* Callers on several threads: any interleaving of their steps.
FactoryNext ==
    \/ \E t \in Callers, a \in SocketAddrs : ClientForCall(t, a)
    \/ \E t \in Callers : ClientForLookup(t)
    \/ \E t \in Callers : ClientForConnected(t)
    \/ \E t \in Callers : ClientForConnectFailed(t)
    \/ \E t \in Callers : ClientForInsert(t)
    \/ \E c \in 1..MaxCalls : ConnectionClosed(c)

\* Callers one after the other: a call starts when no other is running.
ClientForCallAlone(t, addr) ==
    /\ \A u \in Callers : pc[u] = "idle"
    /\ ClientForCall(t, addr)

FactorySeqNext ==
    \/ \E t \in Callers, a \in SocketAddrs : ClientForCallAlone(t, a)
    \/ \E t \in Callers : ClientForLookup(t)
    \/ \E t \in Callers : ClientForConnected(t)
    \/ \E t \in Callers : ClientForConnectFailed(t)
    \/ \E t \in Callers : ClientForInsert(t)
    \/ \E c \in 1..MaxCalls : ConnectionClosed(c)

(***************************************************************************)
(* Sqlite: one SqliteConnection behind Arc<tokio::sync::Mutex>, shared by  *)
(* the handle and its clones.  do_in_transaction awaits the lock, runs the *)
(* closure inside connection.transaction and drops the guard on return.    *)
(***************************************************************************)
DbCallers == {"c1", "c2", "c3"}
SwapKeys == {"k1", "k2"}
NoHolder == "nobody"

\* A lock that is handed out without looking at who holds it.
lock_ready_unchecked(m) == TRUE

\* self.connection.lock().await is ready when nobody holds the mutex.
lock_ready(m) == m = NoHolder

\* The role stored with each swap (rfc003_swaps.role).
StoredRole == [k \in SwapKeys |-> IF k = "k1" THEN "Alice" ELSE "Bob"]

\* The closures callers pass to do_in_transaction: the query of
\* Sqlite::role(key), or one that writes.
RoleQuery(key) == [op |-> "role", key |-> key, value |-> None]
WriteRows == [op |-> "write", key |-> "none", value |-> None]
NoReturn == [tag |-> "none"]

\* The query of Sqlite::role without its filter: the first row of the table.
swaps_first_unfiltered(table, key) ==
    IF table = {} THEN None
    ELSE LET k == IF "k1" \in table THEN "k1" ELSE "k2" IN
         Some([swap_id |-> k, role |-> StoredRole[k]])

\* swaps::table.filter(swap_id.eq(key)).select((swap_id, role))
\*     .first(connection).optional()
swaps_first(table, key) ==
    IF key \in table THEN Some([swap_id |-> key, role |-> StoredRole[key]]) ELSE None

\* connection.transaction that commits whatever the closure returned.
connection_transaction_committing(committed, written, closure) == committed \cup written

\* connection.transaction(|| f(&connection)): what is committed after the
\* closure returned; COMMIT after Ok, ROLLBACK after Err.
connection_transaction(committed, written, closure) ==
    IF closure = "ok" THEN committed \cup written ELSE committed

\* What do_in_transaction returns: `?` on the transaction's result, then
\* Ok(result).
do_in_transaction(closure, value) ==
    IF closure = "ok" THEN Ok(value) ELSE Err("closure")

\* Sqlite::role, from what do_in_transaction gave it:
\* .await?.ok_or(Error::SwapNotFound)? and Ok(*record.role).
sqlite_role(record) ==
    IF record.tag = "err" THEN record
    ELSE IF ~record.val.some THEN Err("SwapNotFound")
    ELSE Ok(record.val.val.role)

\* Sqlite::new: the connection is established, the migrations have run, and
\* the connection is wrapped in the mutex; no caller yet.
SqliteNew ==
    /\ dbpc = [c \in DbCallers |-> "idle"]
    /\ mutex = NoHolder
    /\ txn = NoHolder
    /\ rows = {}
    /\ staged = {}
    /\ outcome = [c \in DbCallers |-> "none"]
    /\ unguarded = FALSE
    /\ dbop = [c \in DbCallers |-> WriteRows]
    /\ dbret = [c \in DbCallers |-> NoReturn]

\* A caller (Sqlite::role, or another operation of the module) enters
\* do_in_transaction on the handle or a clone of it.
DoInTransactionCall(c) ==
    /\ dbpc[c] = "idle"
    /\ dbpc' = [dbpc EXCEPT ![c] = "lock"]
    /\ outcome' = [outcome EXCEPT ![c] = "none"]
    /\ \E f \in {WriteRows} \cup {RoleQuery(k) : k \in SwapKeys} :
         dbop' = [dbop EXCEPT ![c] = f]
    /\ UNCHANGED <<mutex, txn, rows, staged, unguarded, dbret>>
    /\ UNCHANGED otherThanSqlite

\* let guard = self.connection.lock().await
DoInTransactionLock(c) ==
    /\ dbpc[c] = "lock"
    /\ lock_ready(mutex)
    /\ mutex' = c
    /\ dbpc' = [dbpc EXCEPT ![c] = "begin"]
    /\ UNCHANGED <<txn, rows, staged, outcome, unguarded, dbop, dbret>>
    /\ UNCHANGED otherThanSqlite

\* connection.transaction(..): BEGIN
DoInTransactionBegin(c) ==
    /\ dbpc[c] = "begin"
    /\ txn' = c
    /\ staged' = {}
    /\ dbpc' = [dbpc EXCEPT ![c] = "body"]
    /\ UNCHANGED <<mutex, rows, outcome, unguarded, dbop, dbret>>
    /\ UNCHANGED otherThanSqlite

\* f(&connection): the closure reads (as Sqlite::role does) or writes a row,
\* and returns Ok or Err.
DoInTransactionBody(c) ==
    /\ dbpc[c] = "body"
    /\ unguarded' = (unguarded \/ mutex # c \/ txn # c)
    /\ \E written \in IF dbop[c].op = "role" THEN {{}}
                      ELSE {{}} \cup {{k} : k \in SwapKeys},
          result \in {"ok", "err"} :
         /\ staged' = staged \cup written
         /\ outcome' = [outcome EXCEPT ![c] = result]
         /\ dbop' = [dbop EXCEPT ![c].value =
                        IF dbop[c].op = "role" /\ result = "ok"
                        THEN swaps_first(rows \cup staged, dbop[c].key)
                        ELSE None]
    /\ dbpc' = [dbpc EXCEPT ![c] = "end"]
    /\ UNCHANGED <<mutex, txn, rows, dbret>>
    /\ UNCHANGED otherThanSqlite

\* connection.transaction(..): COMMIT after Ok, ROLLBACK after Err.
DoInTransactionEnd(c) ==
    /\ dbpc[c] = "end"
    /\ rows' = connection_transaction(rows, staged, outcome[c])
    /\ staged' = {}
    /\ txn' = NoHolder
    /\ dbpc' = [dbpc EXCEPT ![c] = "return"]
    /\ UNCHANGED <<mutex, outcome, unguarded, dbop, dbret>>
    /\ UNCHANGED otherThanSqlite

\* do_in_transaction returns (Ok(result) or the error through `?`): the
\* guard is dropped; Sqlite::role makes its own result of it.
DoInTransactionReturn(c) ==
    /\ dbpc[c] = "return"
    /\ mutex' = IF mutex = c THEN NoHolder ELSE mutex
    /\ dbpc' = [dbpc EXCEPT ![c] = "idle"]
    /\ dbret' = [dbret EXCEPT ![c] =
                    IF dbop[c].op = "role"
                    THEN sqlite_role(do_in_transaction(outcome[c], dbop[c].value))
                    ELSE do_in_transaction(outcome[c], None)]
    /\ UNCHANGED <<txn, rows, staged, outcome, unguarded, dbop>>
    /\ UNCHANGED otherThanSqlite

SqliteNext ==
    \/ \E c \in DbCallers : DoInTransactionCall(c)
    \/ \E c \in DbCallers : DoInTransactionLock(c)
    \/ \E c \in DbCallers : DoInTransactionBegin(c)
    \/ \E c \in DbCallers : DoInTransactionBody(c)
    \/ \E c \in DbCallers : DoInTransactionEnd(c)
    \/ \E c \in DbCallers : DoInTransactionReturn(c)

(***************************************************************************)
(* Sqlite::new(file): ensure_folder_tree_exists, SqliteConnection::        *)
(* establish, embedded_migrations::run, and the handle.  The path is       *)
(* PathDepth directories deep; the migrations are those embedded from      *)
(* ./migrations, applied in order, each creating one table and recorded    *)
(* in the file once applied.  Calls are made one after the other.          *)
(***************************************************************************)
PathDepth == 2
NumMigrations == 2

Migrations == 1..NumMigrations
RowKeys == {"k1"}
NoFile == [exists |-> FALSE]

\* The file SQLite creates when it opens a path that has none.
EmptyFile == [exists |-> TRUE, applied |-> {}, schema |-> {}, rows |-> {}]

\* create_dir instead of create_dir_all: only the last directory is made.
ensure_folder_tree_exists_parent_only(t, w) ==
    IF t = PathDepth THEN Ok(t)
    ELSE IF w /\ t = PathDepth - 1 THEN Ok(PathDepth)
    ELSE Err("io")

\* ensure_folder_tree_exists: create_dir_all(parent) makes every missing
\* directory above the file; Ok when they all exist already.
ensure_folder_tree_exists(t, w) ==
    IF t = PathDepth THEN Ok(t)
    ELSE IF w THEN Ok(PathDepth)
    ELSE Err("io")

\* SqliteConnection::establish("file:{path}"): opens the file, creating it
\* when there is none; fails when the directory of the file does not exist
\* or the file cannot be created.
establish(t, w, f) ==
    IF t # PathDepth THEN Err("connection")
    ELSE IF f.exists THEN Ok(f)
    ELSE IF w THEN Ok(EmptyFile)
    ELSE Err("connection")

\* One migration: its table is created (empty) and its version recorded.
apply_migration(f, m) ==
    [f EXCEPT !.applied = @ \cup {m},
              !.schema = @ \cup {m},
              !.rows = {r \in @ : r[1] # m}]

RECURSIVE run_from(_, _)
run_from(f, m) ==
    IF m > NumMigrations THEN f
    ELSE run_from(IF m \in f.applied THEN f ELSE apply_migration(f, m), m + 1)

RECURSIVE run_all_from(_, _)
run_all_from(f, m) ==
    IF m > NumMigrations THEN f ELSE run_all_from(apply_migration(f, m), m + 1)

\* Migrations run from the first one whatever the file records.
embedded_migrations_run_all(f) == run_all_from(f, 1)

\* embedded_migrations::run(&connection): the migrations the file does not
\* record as applied are applied, in order.
embedded_migrations_run(f) == run_from(f, 1)

\* The files an earlier version of the node may have left at the path: the
\* first j migrations applied, no rows yet.
EarlierFiles ==
    {[exists |-> TRUE, applied |-> 1..j, schema |-> 1..j, rows |-> {}] : j \in 0..NumMigrations}

\* Before the first call: any part of the directory tree may exist, and with
\* the whole tree a database file may.
NewStart ==
    /\ tree \in 0..PathDepth
    /\ writable \in BOOLEAN
    /\ dbfile \in {NoFile} \cup (IF tree = PathDepth THEN EarlierFiles ELSE {})
    /\ newpc = "idle"
    /\ newres = "none"
    /\ entered = [tree |-> tree, dbfile |-> dbfile]
    /\ handle = FALSE
    /\ opens = 0

\* The file system part of the state while another subsystem is looked at.
NewIdle ==
    /\ tree = PathDepth
    /\ writable = TRUE
    /\ dbfile = embedded_migrations_run(EmptyFile)
    /\ newpc = "idle"
    /\ newres = "ok"
    /\ entered = [tree |-> tree, dbfile |-> dbfile]
    /\ handle = TRUE
    /\ opens = 0

\* Sqlite::new(file) is called.
SqliteNewCall ==
    /\ newpc = "idle"
    /\ opens < MaxOpens
    /\ opens' = opens + 1
    /\ newpc' = "folders"
    /\ entered' = [tree |-> tree, dbfile |-> dbfile]
    /\ UNCHANGED <<tree, writable, dbfile, newres, handle>>
    /\ UNCHANGED otherThanNew

\* ensure_folder_tree_exists(file)?
SqliteNewFolders ==
    /\ newpc = "folders"
    /\ LET r == ensure_folder_tree_exists(tree, writable) IN
       IF r.tag = "ok"
       THEN /\ tree' = r.val
            /\ newpc' = "establish"
            /\ UNCHANGED newres
       ELSE /\ newpc' = "idle"
            /\ newres' = "err"
            /\ UNCHANGED tree
    /\ UNCHANGED <<writable, dbfile, entered, handle, opens>>
    /\ UNCHANGED otherThanNew

\* SqliteConnection::establish(..)?
SqliteNewEstablish ==
    /\ newpc = "establish"
    /\ LET r == establish(tree, writable, dbfile) IN
       IF r.tag = "ok"
       THEN /\ dbfile' = r.val
            /\ newpc' = "migrate"
            /\ UNCHANGED newres
       ELSE /\ newpc' = "idle"
            /\ newres' = "err"
            /\ UNCHANGED dbfile
    /\ UNCHANGED <<tree, writable, entered, handle, opens>>
    /\ UNCHANGED otherThanNew

\* embedded_migrations::run(&connection)?
SqliteNewMigrate ==
    /\ newpc = "migrate"
    /\ dbfile' = embedded_migrations_run(dbfile)
    /\ newpc' = "return"
    /\ UNCHANGED <<tree, writable, newres, entered, handle, opens>>
    /\ UNCHANGED otherThanNew

\* Ok(Sqlite { connection: Arc::new(Mutex::new(connection)) })
SqliteNewReturn ==
    /\ newpc = "return"
    /\ newpc' = "idle"
    /\ newres' = "ok"
    /\ handle' = TRUE
    /\ UNCHANGED <<tree, writable, dbfile, entered, opens>>
    /\ UNCHANGED otherThanNew

\* A holder of a handle stores a row in one of the tables.
StoreRow ==
    /\ handle
    /\ \E t \in dbfile.schema, k \in RowKeys :
         /\ <<t, k>> \notin dbfile.rows
         /\ dbfile' = [dbfile EXCEPT !.rows = @ \cup {<<t, k>>}]
    /\ UNCHANGED <<tree, writable, newpc, newres, entered, handle, opens>>
    /\ UNCHANGED otherThanNew

NewNext ==
    \/ SqliteNewCall
    \/ SqliteNewFolders
    \/ SqliteNewEstablish
    \/ SqliteNewMigrate
    \/ SqliteNewReturn
    \/ StoreRow

(***************************************************************************)
(* The HTTP handler post_lightning_route_new.  Handlers of several         *)
(* requests run interleaved at their await points.                         *)
(***************************************************************************)
Requests == {"r1", "r2"}
LocalSwapIds == {"u1", "u2", "u3"}
Bodies == {"alice", "bob"}        \* Body, told apart by its role
NoId == "none"
NoReply == [status |-> 0]
StatusCreated == 201

NoRequest == [pc |-> "none", body |-> "none", id |-> NoId]

\* A Location header that leaves the id out.
location_header_without_id(id) == <<"/swaps/", NoId>>

\* format!("/swaps/{}", id)
location_header(id) == <<"/swaps/", id>>

\* NodeLocalSwapId::default(): an id that has not been generated before.
FreshIds == LocalSwapIds \ generated

\* Facade2::save(id, body): the swap is stored under the id.
facade_save(db, id, body) == db \cup {[id |-> id, body |-> body]}

\* Facade2::initiate_communication(id, body): announce is started for the id.
facade_initiate_communication(q, id, body) == Append(q, [id |-> id, body |-> body])

HttpIdle ==
    /\ requests = [r \in Requests |-> NoRequest]
    /\ saved = {}
    /\ announced = <<>>
    /\ replies = [r \in Requests |-> NoReply]
    /\ generated = {}

\* A POST arrives: the handler makes the empty reply and generates the id.
PostLightningRouteNew(r, body) ==
    /\ requests[r].pc = "none"
    /\ \E id \in FreshIds :
         /\ requests' = [requests EXCEPT ![r] = [pc |-> "save", body |-> body, id |-> id]]
         /\ generated' = generated \cup {id}
    /\ UNCHANGED <<saved, announced, replies>>
    /\ UNCHANGED otherThanHttp

\* facade.save(id, body.clone()).await
PostSave(r) ==
    /\ requests[r].pc = "save"
    /\ saved' = facade_save(saved, requests[r].id, requests[r].body)
    /\ requests' = [requests EXCEPT ![r].pc = "initiate"]
    /\ UNCHANGED <<announced, replies, generated>>
    /\ UNCHANGED otherThanHttp

\* facade.initiate_communication(id, body).await
PostInitiateCommunication(r) ==
    /\ requests[r].pc = "initiate"
    /\ announced' = facade_initiate_communication(announced, requests[r].id, requests[r].body)
    /\ requests' = [requests EXCEPT ![r].pc = "reply"]
    /\ UNCHANGED <<saved, replies, generated>>
    /\ UNCHANGED otherThanHttp

\* Ok(with_status(with_header(reply, "Location", ..), StatusCode::CREATED))
PostReply(r) ==
    /\ requests[r].pc = "reply"
    /\ replies' = [replies EXCEPT ![r] =
                     [status |-> StatusCreated, location |-> location_header(requests[r].id)]]
    /\ requests' = [requests EXCEPT ![r].pc = "done"]
    /\ UNCHANGED <<saved, announced, generated>>
    /\ UNCHANGED otherThanHttp

HttpNext ==
    \/ \E r \in Requests, b \in Bodies : PostLightningRouteNew(r, b)
    \/ \E r \in Requests : PostSave(r)
    \/ \E r \in Requests : PostInitiateCommunication(r)
    \/ \E r \in Requests : PostReply(r)

(***************************************************************************)
(* with_swap_types!(metadata, body): the match on the metadata binds the   *)
(* type aliases AL, BL, AA, BA, _match_role binds ROLE and calls the body. *)
(* An invocation of the body is recorded with the aliases it was given.    *)
(***************************************************************************)
LedgerKinds == {"Bitcoin", "Ethereum"}
AssetKinds == {"Bitcoin", "Ether", "Erc20"}
RoleKinds == {"Alice", "Bob"}

Metadata ==
    [ alpha_ledger : LedgerKinds, beta_ledger : LedgerKinds,
      alpha_asset : AssetKinds, beta_asset : AssetKinds, role : RoleKinds ]

Unimplemented == [tag |-> "panic"]

\* $fn() where AL, BL, AA, BA and ROLE are the given types.
body_invocation(AL, BL, AA, BA, ROLE) ==
    [AL |-> AL, BL |-> BL, AA |-> AA, BA |-> BA, ROLE |-> ROLE]

\* _match_role that gives every role the state type of Alice.
match_role_always_alice(role, AL, BL, AA, BA) ==
    <<body_invocation(AL, BL, AA, BA, <<"alice::State", AL, BL, AA, BA>>)>>

\* _match_role!(role, $fn): the invocations of the body, in order.
match_role(role, AL, BL, AA, BA) ==
    IF role = "Alice"
    THEN <<body_invocation(AL, BL, AA, BA, <<"alice::State", AL, BL, AA, BA>>)>>
    ELSE <<body_invocation(AL, BL, AA, BA, <<"bob::State", AL, BL, AA, BA>>)>>

\* with_swap_types that looks at the two ledgers only and takes the assets
\* as they come.
with_swap_types_by_ledgers(metadata) ==
    LET asset(k) == CASE k = "Bitcoin" -> "BitcoinQuantity"
                      [] k = "Ether" -> "EtherQuantity"
                      [] k = "Erc20" -> "Erc20Token" IN
    IF metadata.alpha_ledger # metadata.beta_ledger
    THEN Ok(match_role(metadata.role, metadata.alpha_ledger, metadata.beta_ledger,
                       asset(metadata.alpha_asset), asset(metadata.beta_asset)))
    ELSE Unimplemented

\* with_swap_types!(metadata, $fn): the arms in the order of the source.
with_swap_types(metadata) ==
    IF /\ metadata.alpha_ledger = "Bitcoin" /\ metadata.beta_ledger = "Ethereum"
       /\ metadata.alpha_asset = "Bitcoin" /\ metadata.beta_asset = "Ether"
    THEN Ok(match_role(metadata.role, "Bitcoin", "Ethereum", "BitcoinQuantity", "EtherQuantity"))
    ELSE IF /\ metadata.alpha_ledger = "Bitcoin" /\ metadata.beta_ledger = "Ethereum"
            /\ metadata.alpha_asset = "Bitcoin" /\ metadata.beta_asset = "Erc20"
    THEN Ok(match_role(metadata.role, "Bitcoin", "Ethereum", "BitcoinQuantity", "Erc20Token"))
    ELSE IF /\ metadata.alpha_ledger = "Ethereum" /\ metadata.beta_ledger = "Bitcoin"
            /\ metadata.alpha_asset = "Ether" /\ metadata.beta_asset = "Bitcoin"
    THEN Ok(match_role(metadata.role, "Ethereum", "Bitcoin", "EtherQuantity", "BitcoinQuantity"))
    ELSE IF /\ metadata.alpha_ledger = "Ethereum" /\ metadata.beta_ledger = "Bitcoin"
            /\ metadata.alpha_asset = "Erc20" /\ metadata.beta_asset = "Bitcoin"
    THEN Ok(match_role(metadata.role, "Ethereum", "Bitcoin", "Erc20Token", "BitcoinQuantity"))
    ELSE Unimplemented

\* Nothing evaluated yet.
TypesStart ==
    /\ expanded = <<>>
    /\ panicked = FALSE

\* with_swap_types is evaluated on some metadata; unimplemented!() unwinds
\* and nothing is evaluated after it.
WithSwapTypes(metadata) ==
    /\ ~panicked
    /\ Len(expanded) < MaxExpansions
    /\ LET r == with_swap_types(metadata) IN
       /\ expanded' = Append(expanded,
              [metadata |-> metadata, invoked |-> IF r.tag = "ok" THEN r.val ELSE <<>>])
       /\ panicked' = (r.tag = "panic")
    /\ UNCHANGED otherThanTypes

TypesNext == \E metadata \in Metadata : WithSwapTypes(metadata)

(***************************************************************************)
(* The specifications: one subsystem moves, the others rest.               *)
(***************************************************************************)
Init == LndInit /\ AnnounceDefault /\ FactoryDefault /\ SqliteNew /\ NewIdle /\ HttpIdle /\ TypesStart
Next == LndNext
Spec == Init /\ [][Next]_vars

AnnounceInit == LndIdle /\ AnnounceDefault /\ FactoryDefault /\ SqliteNew /\ NewIdle /\ HttpIdle /\ TypesStart
AnnounceSpec == AnnounceInit /\ [][AnnounceNext]_vars

\* The swarm polls the behaviour again and again.
AnnounceFairSpec == AnnounceInit /\ [][AnnounceNext]_vars /\ WF_vars(poll)

FactoryInit == LndIdle /\ AnnounceDefault /\ FactoryDefault /\ SqliteNew /\ NewIdle /\ HttpIdle /\ TypesStart
FactorySpec == FactoryInit /\ [][FactoryNext]_vars
FactorySeqSpec == FactoryInit /\ [][FactorySeqNext]_vars

SqliteInit == LndIdle /\ AnnounceDefault /\ FactoryDefault /\ SqliteNew /\ NewIdle /\ HttpIdle /\ TypesStart
SqliteSpec == SqliteInit /\ [][SqliteNext]_vars

NewInit == LndIdle /\ AnnounceDefault /\ FactoryDefault /\ SqliteNew /\ NewStart /\ HttpIdle /\ TypesStart
NewSpec == NewInit /\ [][NewNext]_vars

HttpInit == LndIdle /\ AnnounceDefault /\ FactoryDefault /\ SqliteNew /\ NewIdle /\ HttpIdle /\ TypesStart
HttpSpec == HttpInit /\ [][HttpNext]_vars

TypesInit == LndIdle /\ AnnounceDefault /\ FactoryDefault /\ SqliteNew /\ NewIdle /\ HttpIdle /\ TypesStart
TypesSpec == TypesInit /\ [][TypesNext]_vars

(***************************************************************************)
(* Properties of the Lightning connectors (specification Spec).            *)
(***************************************************************************)
Polled == last # NoPoll

\* The wait whose loop is running in each phase of the driver.
PhaseOf(k) ==
    CASE k = "opened" -> "opened"
      [] k = "accepted" -> "accepted"
      [] k \in {"settled", "cancelled"} -> "race"

NoWaitRuns == \A k \in Waits : waits[k] \notin {"poll", "delay"}

\* The wait that made the last poll is still in its loop, waiting to poll
\* again, and the driver is where it was.
StillPolling ==
    /\ last.result = Pending
    /\ waits[last.wait] = "delay"
    /\ phase = PhaseOf(last.wait)
    /\ error = NoError

\* The wait that made the last poll ended with error e, and so did the driver.
EndedWith(e) ==
    /\ last.result = Err(e)
    /\ waits[last.wait] = "err"
    /\ phase = "aborted"
    /\ error = e
    /\ NoWaitRuns

\* C1: every Settled{secret} a wait_for_settled returned satisfies
\* SHA256(secret) = the secret hash the wait was called with.
C1_SettledSecretMatchesHash ==
    \A i \in DOMAIN emitted :
        emitted[i].type = "Settled" => Sha256(emitted[i].secret) = SwapHash

\* An invoice or payment whose amount, identity or expiry is not the agreed one.
InvoiceDiffers(inv) ==
    \/ inv.value # AgreedParams.lightning_amount
    \/ inv.expiry # AgreedParams.ethereum_absolute_expiry
    \/ inv.cltv_expiry # AgreedParams.lightning_cltv_expiry
    \/ EthereumIdentityFrom(inv.fallback_addr) # AgreedParams.ethereum_identity

PaymentDiffers(p) == p.value_sat # AgreedParams.lightning_amount

\* A receiver poll got an invoice (a 2xx answer that deserializes) that
\* differs from the params.
ObservedInvoiceMismatch ==
    /\ side = "receiver"
    /\ last.resp.net = "ok"
    /\ last.resp.status = 200
    /\ last.resp.body.kind = "invoice"
    /\ deserialize_r_preimage(last.resp.body.invoice.r_preimage).ok
    /\ InvoiceDiffers(last.resp.body.invoice)

\* A sender poll got a list of payments holding one for the swap's hash that
\* differs from the params (in whatever status).
ObservedPaymentMismatch ==
    /\ side = "sender"
    /\ last.resp.net = "ok"
    /\ last.resp.body.kind = "payments"
    /\ \E i \in DOMAIN last.resp.body.payments :
         LET p == last.resp.body.payments[i] IN
         p.payment_hash = SwapHash /\ PaymentDiffers(p)

\* Every payment of the list carries a preimage that is null or 32 bytes.
PaymentsDeserialize(ps) ==
    \A i \in DOMAIN ps :
        \/ ps[i].payment_preimage.json = "null"
        \/ ps[i].payment_preimage.hex /\ ps[i].payment_preimage.len = 32

\* The list deserializes, and the first payment of it with the swap's hash
\* and the polled status differs from the params.
SelectedPaymentMismatch ==
    /\ side = "sender"
    /\ last.resp.net = "ok"
    /\ last.resp.body.kind = "payments"
    /\ PaymentsDeserialize(last.resp.body.payments)
    /\ \E i \in DOMAIN last.resp.body.payments :
         LET ps == last.resp.body.payments IN
         /\ ps[i].payment_hash = SwapHash /\ ps[i].status = sender_status(last.wait)
         /\ \A j \in 1..(i - 1) :
               ~(ps[j].payment_hash = SwapHash /\ ps[j].status = sender_status(last.wait))
         /\ PaymentDiffers(ps[i])

C4_NotFoundAndInternalErrorMeanAbsent ==
    (Polled /\ side = "receiver" /\ last.resp.net = "ok" /\ last.resp.status \in {404, 500})
        => /\ StillPolling
           /\ last.result.tag \notin {"ok", "err"}
           /\ \A k \in Waits : waits[k] # "err"

C4_Witness ==
    /\ Polled /\ side = "receiver" /\ variant = "hlnbtc"
    /\ last.resp.net = "ok" /\ last.resp.status = 404
    /\ waits[last.wait] = "delay"

\* C5: the emitted of one side are a prefix of Opened, Accepted,
\* (Settled | Cancelled).
C5_EventsArePrefix ==
    /\ Len(emitted) <= 3
    /\ Len(emitted) >= 1 => emitted[1] = Opened
    /\ Len(emitted) >= 2 => emitted[2] = Accepted
    /\ Len(emitted) >= 3 => emitted[3].type \in {"Settled", "Cancelled"}
    /\ phase = "done" <=> Len(emitted) = 3

C5_Witness == Len(emitted) = 3 /\ emitted[3].type = "Settled" /\ side = "receiver"

\* C7: in the race of wait_for_settled against wait_for_cancelled every poll
\* leaves the connector and LND as they were, and the race ends with one
\* outcome, that of the wait whose poll resolved: the other wait is dropped
\* where it was and nothing of it remains.
C7_RaceStep ==
    phase = "race" =>
        /\ (last' # NoPoll => conn' = conn /\ invoice' = invoice /\ payments' = payments)
        /\ (phase' = "done" =>
              /\ last' # NoPoll
              /\ last'.wait \in {"settled", "cancelled"}
              /\ last'.result.tag = "ok"
              /\ emitted' = Append(emitted, last'.result.val)
              /\ emitted'[Len(emitted')].type =
                     (IF last'.wait = "settled" THEN "Settled" ELSE "Cancelled")
              /\ waits'[last'.wait] = "ok"
              /\ \A k \in {"settled", "cancelled"} \ {last'.wait} : waits'[k] = "dropped")
        /\ (phase' = "race" => emitted' = emitted)

C12_SenderOpenedStep ==
    (side = "sender" /\ waits["opened"] = "poll" /\ waits'["opened"] # "poll") =>
        /\ last' = NoPoll
        /\ waits'["opened"] = "ok"
        /\ emitted' = <<Opened>>
        /\ phase' = "accepted" /\ error' = NoError
        /\ conn' = conn /\ invoice' = invoice /\ payments' = payments

C12_SenderOpenedAtOnce ==
    /\ [][C12_SenderOpenedStep]_vars
    /\ [](side = "sender" => waits["opened"] \in {"poll", "ok"})

\* Opened was returned although the only payment of the swap's hash has
\* failed, and no request has been made.
C12_Witness ==
    /\ side = "sender" /\ emitted = <<Opened>> /\ waits["accepted"] = "poll"
    /\ Len(payments) = 1 /\ payments[1].payment_hash = SwapHash
    /\ payments[1].status = "FAILED"
    /\ ~retried /\ last = NoPoll

\* The status, state and event the specification gives for each wait.
StatusThatResolves(k) ==
    CASE k = "accepted" -> "IN_FLIGHT"
      [] k = "settled" -> "SUCCEEDED"
      [] k = "cancelled" -> "FAILED"

StateThatResolves(k) ==
    CASE k = "opened" -> "OPEN"
      [] k = "accepted" -> "ACCEPTED"
      [] k = "settled" -> "SETTLED"
      [] k = "cancelled" -> "CANCELLED"

EventOf(k) ==
    CASE k = "opened" -> "Opened"
      [] k = "accepted" -> "Accepted"
      [] k = "settled" -> "Settled"
      [] k = "cancelled" -> "Cancelled"

\* The payment list of the last poll holds a payment of the swap's hash in
\* the status that resolves the polling wait.
ListHoldsResolvingPayment ==
    /\ last.resp.net = "ok"
    /\ last.resp.body.kind = "payments"
    /\ \E i \in DOMAIN last.resp.body.payments :
         /\ last.resp.body.payments[i].payment_hash = SwapHash
         /\ last.resp.body.payments[i].status = StatusThatResolves(last.wait)

\* C13: a sender wait resolves only on a poll whose payment list holds a
\* payment with the swap's hash and exactly the wait's status (IN_FLIGHT,
\* SUCCEEDED, FAILED), and then with its own event; a list without such a
\* payment never resolves it.
C13_SenderResolvesOnExactStatus ==
    (Polled /\ side = "sender") =>
        /\ last.result.tag = "ok" =>
              /\ ListHoldsResolvingPayment
              /\ last.result.val.type = EventOf(last.wait)
              /\ waits[last.wait] = "ok"
        /\ ~ListHoldsResolvingPayment =>
              /\ last.result.tag # "ok"
              /\ waits[last.wait] # "ok"

\* wait_for_cancelled resolved on the second payment of the list; the first
\* one has failed too but belongs to another hash.
C13_Witness ==
    /\ Polled /\ side = "sender" /\ last.wait = "cancelled"
    /\ last.result = Ok(Cancelled)
    /\ Len(last.resp.body.payments) = 2
    /\ last.resp.body.payments[1].payment_hash # SwapHash
    /\ last.resp.body.payments[1].status = "FAILED"

\* The last poll of the receiver got the invoice (a 200 answer carrying it).
ObservedInvoice ==
    /\ side = "receiver"
    /\ last.resp.net = "ok"
    /\ last.resp.status = 200
    /\ last.resp.body.kind = "invoice"

\* C14 as stated: a receiver wait resolves only on a poll that observes the
\* invoice in exactly the wait's state, and an invoice observed in any other
\* state leaves the wait polling.
C14_OtherStateLeavesWaitPolling ==
    (Polled /\ side = "receiver") =>
        /\ last.result.tag = "ok" =>
              /\ ObservedInvoice
              /\ last.resp.body.invoice.state = StateThatResolves(last.wait)
        /\ (ObservedInvoice
              /\ last.resp.body.invoice.state # StateThatResolves(last.wait))
             => StillPolling

\* The invoice of the last poll is one the halight connector takes: its
\* r_preimage deserializes and its fields are the agreed ones.
InvoiceTaken ==
    /\ \/ last.resp.body.invoice.r_preimage.json = "null"
       \/ /\ last.resp.body.invoice.r_preimage.b64
          /\ last.resp.body.invoice.r_preimage.len \in {0, 32}
    /\ ~InvoiceDiffers(last.resp.body.invoice)

\* C14 amended: a receiver wait resolves only on a poll that observes the
\* invoice in exactly the wait's state, and then with its own event (or, for
\* wait_for_settled, an error about the preimage); an invoice observed in
\* any other state never resolves the wait: the wait goes on polling, except
\* that the halight connector ends it with an error when that invoice does
\* not deserialize or does not match the params.
C14_ReceiverResolvesOnExactState ==
    (Polled /\ side = "receiver") =>
        /\ last.result.tag = "ok" =>
              /\ ObservedInvoice
              /\ last.resp.body.invoice.state = StateThatResolves(last.wait)
              /\ last.result.val.type = EventOf(last.wait)
              /\ waits[last.wait] = "ok"
        /\ (ObservedInvoice
              /\ last.resp.body.invoice.state # StateThatResolves(last.wait))
             => /\ last.result.tag # "ok"
                /\ waits[last.wait] # "ok"
                /\ (variant = "hlnbtc" \/ InvoiceTaken) => StillPolling
                /\ (variant = "halight" /\ ~InvoiceTaken) =>
                       (EndedWith("deserialize") \/ EndedWith("validation"))

\* wait_for_opened saw the agreed invoice already ACCEPTED and polls on.
C14_Witness ==
    /\ Polled /\ ObservedInvoice /\ variant = "halight" /\ last.wait = "opened"
    /\ last.resp.body.invoice.state = "ACCEPTED"
    /\ InvoiceTaken /\ StillPolling

\* A preimage that is 32 bytes, in the invoice JSON and in the payment JSON.
InvoicePreimageValid(raw) == raw.json = "string" /\ raw.b64 /\ raw.len = 32
PaymentPreimageValid(raw) == raw.json = "string" /\ raw.hex /\ raw.len = 32

\* The last poll was wait_for_settled's and observed the settled invoice
\* (receiver) or selected the succeeded payment (sender: the first of the
\* list with the swap's hash and status SUCCEEDED) without a valid preimage.
SettledWithoutPreimage ==
    /\ last.wait = "settled"
    /\ \/ /\ ObservedInvoice
          /\ last.resp.body.invoice.state = "SETTLED"
          /\ ~InvoicePreimageValid(last.resp.body.invoice.r_preimage)
       \/ /\ side = "sender"
          /\ last.resp.net = "ok"
          /\ last.resp.body.kind = "payments"
          /\ \E i \in DOMAIN last.resp.body.payments :
               LET ps == last.resp.body.payments IN
               /\ ps[i].payment_hash = SwapHash /\ ps[i].status = "SUCCEEDED"
               /\ \A j \in 1..(i - 1) :
                     ~(ps[j].payment_hash = SwapHash /\ ps[j].status = "SUCCEEDED")
               /\ ~PaymentPreimageValid(ps[i].payment_preimage)

NoTerminalEvent == \A i \in DOMAIN emitted : emitted[i].type \notin {"Settled", "Cancelled"}

\* C15: wait_for_settled that observes the succeeded payment or the settled
\* invoice with no preimage or an invalid one ends with an error; no Settled
\* is returned.
C15_SettledWithoutPreimageIsError ==
    (Polled /\ SettledWithoutPreimage) =>
        /\ last.result.tag = "err"
        /\ waits["settled"] = "err"
        /\ phase = "aborted" /\ error = last.result.err /\ error # NoError
        /\ NoTerminalEvent

\* The hlnbtc receiver got the settled invoice with a preimage of 31 bytes.
C15_Witness ==
    /\ Polled /\ SettledWithoutPreimage /\ side = "receiver" /\ variant = "hlnbtc"
    /\ last.resp.body.invoice.r_preimage = JsonStr(TRUE, 31, "none")
    /\ phase = "aborted"

\* C16: deserialize_r_preimage on the r_preimage of every invoice LND holds:
\* base64 of 32 bytes gives those bytes, the empty string and null give
\* absent, every other string is an error; and the halight receiver's poll
\* that gets the invoice fails with that error, and only then.
C16_RPreimageDecoding ==
    /\ invoice # NoInvoice =>
         LET raw == invoice.r_preimage
             d == deserialize_r_preimage(raw) IN
         /\ InvoicePreimageValid(raw) => d = [ok |-> TRUE, val |-> Some(raw.val)]
         /\ (raw.json = "null" \/ (raw.b64 /\ raw.len = 0)) => d = [ok |-> TRUE, val |-> None]
         /\ (raw.json = "string" /\ (~raw.b64 \/ raw.len \notin {0, 32})) => d = [ok |-> FALSE]
    /\ (Polled /\ ObservedInvoice /\ variant = "halight") =>
         LET raw == last.resp.body.invoice.r_preimage IN
         /\ (raw.json = "string" /\ (~raw.b64 \/ raw.len \notin {0, 32}))
               <=> last.result = Err("deserialize")
         /\ last.result.tag = "ok" /\ last.wait = "settled"
               => InvoicePreimageValid(raw) /\ last.result.val = Settled(raw.val)

\* The halight receiver returned Settled with the 32 bytes of the invoice.
C16_Witness ==
    /\ Polled /\ ObservedInvoice /\ variant = "halight" /\ last.wait = "settled"
    /\ last.resp.body.invoice.r_preimage = JsonStr(TRUE, 32, "s2")
    /\ last.result = Ok(Settled("s2"))

\* LND holds the swap's invoice in state st (receiver) or a payment of the
\* swap's hash in status st (sender).
LedgerShows(invoiceState, paymentStatus) ==
    IF side = "receiver"
    THEN invoice # NoInvoice /\ invoice.state = invoiceState
    ELSE \E i \in DOMAIN payments :
            payments[i].payment_hash = SwapHash /\ payments[i].status = paymentStatus

\* C17: Cancelled is returned only for a FAILED payment or CANCELLED invoice
\* of the swap's hash that LND holds, Settled only for a SUCCEEDED payment
\* or SETTLED invoice; a poll that fails returns an error, which ends the
\* wait without any Settled or Cancelled.
C17_ErrorIsNeverAnObservedOutcome ==
    /\ \A i \in DOMAIN emitted :
         /\ emitted[i].type = "Cancelled" => LedgerShows("CANCELLED", "FAILED")
         /\ emitted[i].type = "Settled" => LedgerShows("SETTLED", "SUCCEEDED")
    /\ Polled =>
         /\ (last.resp.net = "err" \/ last.resp.body.kind \in {"garbage", "lnd_error"})
               => last.result.tag # "ok"
         /\ last.result.tag = "err" =>
               /\ phase = "aborted" /\ error = last.result.err /\ error # NoError
               /\ waits[last.wait] = "err"
    /\ phase = "aborted" => NoTerminalEvent /\ NoWaitRuns

\* wait_for_cancelled failed on the network while the invoice was CANCELLED:
\* an error, and no Cancelled.
C17_Witness ==
    /\ Polled /\ side = "receiver" /\ last.wait = "cancelled"
    /\ last.result = Err("network")
    /\ invoice # NoInvoice /\ invoice.state = "CANCELLED"
    /\ emitted = <<Opened, Accepted>> /\ phase = "aborted"


(***************************************************************************)
(* No wait gives up by itself (specification Spec).                        *)
(***************************************************************************)
\* The poll l got an answer that shows the target of its wait: the invoice
\* in the wait's state, or a list with a payment of the swap's hash in the
\* wait's status.
TargetObservedBy(l) ==
    IF side = "receiver"
    THEN /\ l.resp.net = "ok" /\ l.resp.status = 200
         /\ l.resp.body.kind = "invoice"
         /\ l.resp.body.invoice.state = StateThatResolves(l.wait)
    ELSE /\ l.wait # "opened"
         /\ l.resp.net = "ok" /\ l.resp.body.kind = "payments"
         /\ \E i \in DOMAIN l.resp.body.payments :
              /\ l.resp.body.payments[i].payment_hash = SwapHash
              /\ l.resp.body.payments[i].status = StatusThatResolves(l.wait)

\* The poll l got a good answer that shows nothing of the swap: 404 for the
\* invoice, or a list of payments that deserializes and has none of the
\* swap's hash.
NothingObservedBy(l) ==
    IF side = "receiver"
    THEN l.resp.net = "ok" /\ l.resp.status = 404
    ELSE /\ l.resp.net = "ok" /\ l.resp.status = 200
         /\ l.resp.body.kind = "payments"
         /\ PaymentsDeserialize(l.resp.body.payments)
         /\ \A i \in DOMAIN l.resp.body.payments :
              l.resp.body.payments[i].payment_hash # SwapHash

\* What a step does to the waits in `ws`: a wait is ended by nothing but a
\* poll (its own, or one that ends the driver or the race); it returns Ok
\* only from its own poll, which observed its target; a poll that found
\* nothing leaves it waiting for the delay, after which it polls again.
WaitsEndOnPollsOnly(ws) ==
    /\ \A k \in ws :
         /\ (waits[k] \in {"poll", "delay"} /\ waits'[k] \notin {"poll", "delay"})
               => last' # NoPoll
         /\ (waits[k] # "ok" /\ waits'[k] = "ok") =>
               /\ last' # NoPoll
               /\ last'.wait = k
               /\ last'.result.tag = "ok"
               /\ TargetObservedBy(last')
         /\ (waits[k] = "delay" /\ waits'[k] # "delay") =>
               (waits'[k] = "poll" \/ (waits'[k] = "dropped" /\ last' # NoPoll))
    /\ last' # NoPoll =>
         /\ last'.wait \in ws
         /\ waits[last'.wait] = "poll"
         /\ last'.result = Pending => waits'[last'.wait] = "delay"
         /\ NothingObservedBy(last') =>
               (last'.result = Pending /\ phase' = phase /\ error' = NoError)

\* C24 as stated: no wait ends but by a poll, and none returns Ok without a
\* poll of it having observed its target; this for every wait_for_*.
C24_NoWaitReturnsUnobserved == [][WaitsEndOnPollsOnly(Waits)]_vars

\* The waits that poll LND: all but wait_for_opened of the sender.
PollingWaits == IF side = "sender" THEN Waits \ {"opened"} ELSE Waits

\* C24 amended: the same for every wait that polls, that is all but
\* wait_for_opened of the sender, which returns Ok(Opened) at once.
C24_NoPollingWaitGivesUp ==
    /\ [][WaitsEndOnPollsOnly(PollingWaits)]_vars
    /\ []((side = "sender" /\ waits["opened"] = "ok" /\ phase = "accepted"
             /\ \A k \in PollingWaits : waits[k] \in {"idle", "poll"})
            => emitted = <<Opened>>)

\* wait_for_accepted of the sender has polled after an earlier request of
\* it had failed, found a payment of another swap and none of this one in
\* the list, and waits to poll again.
C24_Witness ==
    /\ Polled /\ side = "sender" /\ last.wait = "accepted" /\ retried
    /\ NothingObservedBy(last) /\ last.result = Pending
    /\ Len(last.resp.body.payments) >= 1
    /\ waits["accepted"] = "delay" /\ phase = "accepted"
    /\ emitted = <<Opened>>

(***************************************************************************)
(* The connector is shared and immutable; the two variants compared        *)
(* (specification Spec).                                                    *)
(***************************************************************************)
\* What one iteration of wait k of a connector of variant v makes of resp.
PollOf(v, k, resp) ==
    IF side = "sender" THEN sender_poll(v, k, resp, SwapHash, AgreedParams)
    ELSE receiver_poll(v, k, resp, AgreedParams)

MatchingAndWellFormed(resp) ==
    resp.net = "ok" =>
        /\ resp.body.kind = "invoice" =>
              /\ ~InvoiceDiffers(resp.body.invoice)
              /\ deserialize_r_preimage(resp.body.invoice.r_preimage).ok
        /\ resp.body.kind = "payments" =>
              /\ PaymentsDeserialize(resp.body.payments)
              /\ \A i \in DOMAIN resp.body.payments :
                    resp.body.payments[i].payment_hash = SwapHash
                        => ~PaymentDiffers(resp.body.payments[i])

SettledWithEmptyPreimage(k, resp) ==
    /\ side = "receiver" /\ k = "settled"
    /\ resp.net = "ok" /\ resp.status = 200 /\ resp.body.kind = "invoice"
    /\ resp.body.invoice.state = "SETTLED"
    /\ resp.body.invoice.r_preimage.json = "string"
    /\ resp.body.invoice.r_preimage.len = 0

C31_InvoiceValidatedBeforeState ==
    (Polled /\ variant = "halight" /\ ObservedInvoiceMismatch) =>
        /\ EndedWith("validation")
        /\ \A k \in Waits, st \in InvoiceStates :
              receiver_poll("halight", k,
                  Http(200, InvoiceBody([last.resp.body.invoice EXCEPT !.state = st])),
                  AgreedParams) = Err("validation")

\* wait_for_opened fetched an invoice of another amount that is SETTLED
\* already, and ended with the ValidationError.
C31_Witness ==
    /\ Polled /\ variant = "halight" /\ side = "receiver" /\ last.wait = "opened"
    /\ ObservedInvoiceMismatch
    /\ last.resp.body.invoice.state = "SETTLED"
    /\ last.resp.body.invoice.value = 10001
    /\ last.result = Err("validation") /\ phase = "aborted"

TruthfulInvoiceResponse ==
    IF invoice = NoInvoice THEN Http(404, LndErrorBody) ELSE Http(200, InvoiceBody(invoice))

LiveSenderPoll(k) == SenderPollFrom(k, {Http(200, PaymentsBody(payments))})

LiveReceiverPoll(k) == ReceiverPollFrom(k, {TruthfulInvoiceResponse})

LiveAddInvoice ==
    /\ side = "receiver"
    /\ invoice = NoInvoice
    /\ invoice' = MatchingInvoice
    /\ last' = NoPoll
    /\ UNCHANGED <<side, variant, conn, payments, phase, waits, emitted, error, retried>>
    /\ UNCHANGED otherThanLnd

LiveSettleInvoice ==
    /\ invoice # NoInvoice
    /\ invoice.state = "ACCEPTED"
    /\ invoice' = [invoice EXCEPT !.state = "SETTLED", !.r_preimage = JsonStr(TRUE, 32, "s1")]
    /\ last' = NoPoll
    /\ UNCHANGED <<side, variant, conn, payments, phase, waits, emitted, error, retried>>
    /\ UNCHANGED otherThanLnd

LiveSendPayment ==
    /\ side = "sender"
    /\ payments = <<>>
    /\ payments' = << [ value_sat |-> AgreedParams.lightning_amount, payment_preimage |-> JsonNull,
                        status |-> "IN_FLIGHT", payment_hash |-> SwapHash ] >>
    /\ last' = NoPoll
    /\ UNCHANGED <<side, variant, conn, invoice, phase, waits, emitted, error, retried>>
    /\ UNCHANGED otherThanLnd

LivePaymentSucceeds ==
    /\ payments # <<>>
    /\ payments[1].status = "IN_FLIGHT"
    /\ payments' = [payments EXCEPT ![1].status = "SUCCEEDED",
                                    ![1].payment_preimage = HexStr(TRUE, 32, "s1")]
    /\ last' = NoPoll
    /\ UNCHANGED <<side, variant, conn, invoice, phase, waits, emitted, error, retried>>
    /\ UNCHANGED otherThanLnd

LiveLnd ==
    \/ LiveAddInvoice
    \/ LndAcceptInvoice
    \/ LiveSettleInvoice
    \/ LndCancelInvoice
    \/ LiveSendPayment
    \/ LivePaymentSucceeds
    \/ LndPaymentFails(1)

LiveNext ==
    \/ SenderWaitForOpened
    \/ \E k \in Waits : LiveSenderPoll(k)
    \/ \E k \in Waits : LiveReceiverPoll(k)
    \/ \E k \in Waits : Delay(k)
    \/ LiveLnd

\* The runtime runs every ready future and every timer fires; LND does not
\* stop half way.
LiveFairness ==
    /\ WF_vars(SenderWaitForOpened)
    /\ \A k \in Waits : WF_vars(LiveSenderPoll(k))
    /\ \A k \in Waits : WF_vars(LiveReceiverPoll(k))
    /\ \A k \in Waits : WF_vars(Delay(k))
    /\ WF_vars(LiveLnd)

LiveSpec == Init /\ [][LiveNext]_vars /\ LiveFairness

\* LND has brought the swap's invoice or payment to its final state.
LedgerFinal ==
    \/ invoice # NoInvoice /\ invoice.state \in {"SETTLED", "CANCELLED"}
    \/ payments # <<>> /\ payments[1].status \in {"SUCCEEDED", "FAILED"}

\* C6: on a matching HTLC that reaches its final state, under fair polling
\* without errors, the driver eventually has emitted Opened, Accepted and
\* the terminal event.
C6_DriverCompletes ==
    <>(phase = "done" /\ Len(emitted) = 3 /\ LedgerFinal)


(***************************************************************************)
(* Properties of the Announce behaviour (specification AnnounceSpec).      *)
(***************************************************************************)
\* C8: in one peer session the behaviour generates at most one
\* ReceivedConfirmation event per swap digest, however many confirmations
\* the handler reports.
C8_AtMostOneConfirmationPerDigest ==
    \A p \in Peers, d \in Digests : confirms[p][d] <= 1

\* The events of a kind, peer and error in a sequence of actions.
ErrorEventsIn(q, p, e) ==
    {i \in DOMAIN q : q[i] = GenerateEvent([kind |-> "Error", peer |-> p, error |-> e])}

\* C18: an error the handler of a peer reports is queued as one
\* BehaviourEvent::Error with that peer and that error, behind the events
\* already queued, which stay as they are; and the Error events queued or
\* handed out are as many as the errors reported, per peer and error.
C18_ErrorStep ==
    \A p \in Peers, e \in HandlerErrors :
        inject_node_event(p, HandlerError(e)) =>
            /\ Len(events') = Len(events) + 1
            /\ SubSeq(events', 1, Len(events)) = events
            /\ events'[Len(events')] =
                   GenerateEvent([kind |-> "Error", peer |-> p, error |-> e])
            /\ polled' = polled

C18_HandlerErrorSurfacesOnce ==
    /\ [][C18_ErrorStep]_vars
    /\ [](\A p \in Peers, e \in HandlerErrors :
            Cardinality(ErrorEventsIn(events, p, e))
              + Cardinality(ErrorEventsIn(polled, p, e)) = reports[p][e])

\* The error of p2's handler is queued behind an announcement to send.
C18_Witness ==
    /\ Len(events) = 2
    /\ events[1].action = "SendEvent"
    /\ events[2] = GenerateEvent([kind |-> "Error", peer |-> "p2", error |-> "io"])
    /\ reports["p2"]["io"] = 1

\* The announcements (AwaitingConfirmation events with their reply
\* substreams) the behaviour holds.
HeldAnnouncements ==
    Cardinality({i \in DOMAIN events :
                    /\ events[i].action = "GenerateEvent"
                    /\ events[i].event.kind = "AwaitingConfirmation"})

C27_NodeEventStep ==
    \A p \in Peers, e \in HandlerEvents :
        inject_node_event(p, e) =>
            /\ Len(events') = Len(events) + 1
            /\ SubSeq(events', 1, Len(events)) = events
            /\ polled' = polled
            /\ LET a == events'[Len(events')] IN
               /\ a.action = "GenerateEvent"
               /\ a.event.kind = e.kind
               /\ a.event.peer = p
               /\ DOMAIN a.event = DOMAIN e \cup {"peer"}
               /\ \A f \in DOMAIN e : a.event[f] = e[f]

C27_NodeEventBecomesOneBehaviourEvent == [][C27_NodeEventStep]_vars

\* The queue holds the announcement p2 sent on its substream sub2 and,
\* behind it, p1's confirmation of id2 for d1.
C27_Witness ==
    /\ Len(events) = 2
    /\ events[1] = GenerateEvent([kind |-> "AwaitingConfirmation", peer |-> "p2", io |-> "sub2"])
    /\ events[2] = GenerateEvent([ kind |-> "ReceivedConfirmation", peer |-> "p1",
                                   swap_id |-> "id2", swap_digest |-> "d1" ])

\* The action a call of start_announce_protocol or inject_node_event is to
\* put into the queue.
ActionOf(c) ==
    IF c.call = "start_announce_protocol" THEN SendEvent(c.peer_id, c.event)
    ELSE GenerateEvent(behaviour_event(c.peer_id, c.event))

\* A call of poll (the step after which `returned` holds what it returned):
\* Pending and nothing changed when the queue is empty, else Ready with the
\* action at the front, which leaves the queue.
C28_PollStep ==
    returned' # NotPolled =>
        IF events = <<>>
        THEN returned' = PollPending /\ events' = events /\ polled' = polled
        ELSE /\ returned' = PollReady(Head(events))
             /\ events' = Tail(events)
             /\ polled' = Append(polled, Head(events))

\* C28: the actions poll has returned, followed by those still queued, are
\* the actions of the calls of start_announce_protocol and
\* inject_node_event in the order of the calls, one for one; poll returns
\* Pending exactly when the queue is empty.
C28_PollIsFifo ==
    /\ [][C28_PollStep]_vars
    /\ [](polled \o events = [i \in DOMAIN enqueued |-> ActionOf(enqueued[i])])

\* poll gave p1's confirmation first and the announcement to send queued
\* after it second, and then Pending.
C28_Witness ==
    /\ Len(polled) = 2 /\ events = <<>> /\ returned = PollPending
    /\ polled[1].action = "GenerateEvent" /\ polled[1].event.peer = "p1"
    /\ polled[2].action = "SendEvent"
    /\ enqueued[2].call = "start_announce_protocol"

\* C29: start_announce_protocol(config, peer) leaves a queue that is the
\* old one with one SendEvent for that peer, carrying that config, at its
\* tail, whether or not the same announcement is queued already.
C29_StartStep ==
    \A d \in Digests, p \in Peers :
        start_announce_protocol(OutboundConfig(d), p) =>
            /\ events' = events \o
                   << [ action |-> "SendEvent", peer_id |-> p,
                        event |-> [swap_digest |-> d] ] >>
            /\ polled' = polled

C29_StartAppendsOneSendEvent == [][C29_StartStep]_vars

\* Two calls with the same config and peer: two SendEvents queued.
C29_Witness ==
    /\ Len(events) = 2 /\ events[1] = events[2]
    /\ events[1] = SendEvent("p2", OutboundConfig("d1"))
    /\ Len(enqueued) = 2

\* A step that connects or disconnects a peer leaves the queue and what
\* poll has returned as they are.
C30_ConnectionStep ==
    connected' # connected => (events' = events /\ polled' = polled)

\* C30: connecting or disconnecting a peer leaves the queue unchanged, and
\* with the swarm polling every action queued is returned by poll in the
\* end, whatever peers disconnect meanwhile.
C30_ConnectionsLeaveQueue ==
    /\ [][C30_ConnectionStep]_vars
    /\ \A n \in 1..MaxPushes :
         (Len(enqueued) >= n) ~> (Len(polled) >= n /\ polled[n] = ActionOf(enqueued[n]))

\* poll has just returned the event p1's handler reported, and p1 is no
\* longer connected.
C30_Witness ==
    /\ returned # NotPolled /\ returned # PollPending
    /\ returned.event.action = "GenerateEvent"
    /\ returned.event.event.peer = "p1"
    /\ "p1" \notin connected

(***************************************************************************)
(* Properties of DefaultFactory (FactorySpec: concurrent callers;          *)
(* FactorySeqSpec: one call after the other).                              *)
(***************************************************************************)
\* C9: whatever the interleaving of concurrent client_for calls, at most
\* one connection per address is established and every caller of an
\* address is given the same client, the one the cache holds.
C9_OneConnectionPerAddress ==
    \A a \in SocketAddrs :
        /\ connections[a] <= 1
        /\ Cardinality(given[a]) <= 1
        /\ given[a] \subseteq {clients[a]}

\* C10: with calls made one after the other, no connection to an address
\* is opened before a call for it; once a call for an address succeeded
\* every later call for it returns that same client, the cached one, and
\* opens no new connection; and no client is returned for two addresses.
C10_SequentialCallsShareOneClient ==
    /\ \A a \in SocketAddrs :
         /\ connections[a] <= 1
         /\ given[a] # {} => (given[a] = {clients[a]} /\ connections[a] = 1)
         /\ connections[a] > 0 =>
                (given[a] # {} \/ \E t \in Callers : call[t].addr = a)
    /\ \A a, b \in SocketAddrs : a # b => given[a] \cap given[b] = {}
    /\ calls = 0 => \A a \in SocketAddrs : connections[a] = 0

\* All the calls were for one address, one after the other, and are done:
\* one connection, one client given out, the cached one; the other address
\* has none.
C10_Witness ==
    /\ calls = MaxCalls /\ \A t \in Callers : pc[t] = "idle"
    /\ connections["a1"] = 1 /\ given["a1"] = {clients["a1"]}
    /\ connections["a2"] = 0 /\ given["a2"] = {}

\* A client_for whose connect failed returns FactoryError::Connection and
\* leaves cache and connections as they are; a client_for that finds no
\* entry for its address goes on to connect.
C33_ConnectFailedStep ==
    \A t \in Callers :
        /\ (pc[t] = "connect" /\ pc'[t] = "idle") =>
              /\ facres'[t] = Err("Connection")
              /\ clients' = clients
              /\ connections' = connections
              /\ attempts'[call[t].addr] = attempts[call[t].addr] + 1
        /\ (pc[t] = "lookup" /\ pc'[t] # "lookup" /\ clients[call[t].addr] = NoClient)
              => pc'[t] = "connect"

\* C33: when connecting fails client_for returns FactoryError::Connection
\* and adds no entry to the cache: an address no connection was established
\* to has no entry, so a later client_for for it tries to connect again.
C33_FailedConnectLeavesCache ==
    /\ [][C33_ConnectFailedStep]_vars
    /\ [](\A a \in SocketAddrs : connections[a] = 0 => clients[a] = NoClient)

\* One caller made two calls for a1: the first failed to connect, the
\* second found no entry and is connecting.
C33_Witness ==
    /\ calls = 2 /\ pc["t2"] = "idle" /\ facres["t2"] = NoResult
    /\ pc["t1"] = "connect" /\ call["t1"].addr = "a1"
    /\ attempts["a1"] = 1 /\ connections["a1"] = 0 /\ clients["a1"] = NoClient

\* The end of a connection changes no entry of the cache; no step takes an
\* entry out of the cache; a client_for that finds an entry returns it and
\* connects to nobody, whether or not its connection has ended.
C34_CachedStep ==
    /\ closed' # closed => (clients' = clients /\ facres' = facres)
    /\ \A a \in SocketAddrs : clients[a] # NoClient => clients'[a] # NoClient
    /\ \A t \in Callers :
         (pc[t] = "lookup" /\ pc'[t] # "lookup" /\ clients[call[t].addr] # NoClient) =>
             /\ facres'[t] = Ok(clients[call[t].addr])
             /\ pc'[t] = "idle"
             /\ clients' = clients
             /\ connections' = connections /\ attempts' = attempts

\* C34: DefaultFactory neither removes nor replaces an entry when its
\* connection ends: client_for for the address still returns the cached
\* client and opens no new connection.
C34_ClosedConnectionStaysCached == [][C34_CachedStep]_vars

\* The connection to a1 has ended and a client_for for a1 after that
\* returned its client, still cached; there was one connect only.
C34_Witness ==
    /\ reused >= 1 /\ 1 \in closed /\ clients["a1"] = 1
    /\ facres["t1"] = Ok(1)
    /\ connections["a1"] = 1 /\ attempts["a1"] = 1

(***************************************************************************)
(* Properties of Sqlite (specification SqliteSpec).                        *)
(***************************************************************************)
\* The callers between taking the lock and dropping the guard.
InsideLock == {c \in DbCallers : dbpc[c] \in {"begin", "body", "end", "return"}}

\* C11: at most one transaction body runs at a time over the handle and
\* its clones; a closure runs only while its caller holds the connection
\* mutex and has opened the transaction; no operation runs outside one.
C11_OneTransactionAtATime ==
    /\ Cardinality(InsideLock) <= 1
    /\ \A c \in DbCallers :
         /\ c \in InsideLock => mutex = c
         /\ dbpc[c] \in {"body", "end"} => txn = c
    /\ txn # NoHolder => mutex = txn
    /\ staged # {} => txn # NoHolder
    /\ ~unguarded

\* One caller has run its closure, which wrote a row, while the two others
\* wait for the lock; an earlier transaction has been committed.
C11_Witness ==
    /\ dbpc["c1"] = "end" /\ staged # {} /\ rows # {}
    /\ dbpc["c2"] = "lock" /\ dbpc["c3"] = "lock"

\* What a step of a caller's do_in_transaction does to the database and
\* the lock: the closure's writes are committed when it returned Ok and
\* gone when it returned Err, nothing else changes the rows; the call
\* returns Ok with the closure's value or the closure's error, and with the
\* return the lock is free.
C35_TransactionStep ==
    \A c \in DbCallers :
        /\ (dbpc[c] = "body" /\ dbpc'[c] = "end") => rows' = rows
        /\ (dbpc[c] = "end" /\ dbpc'[c] = "return") =>
              /\ outcome[c] = "err" => rows' = rows
              /\ outcome[c] = "ok" => rows' = rows \cup staged
              /\ staged' = {} /\ txn' = NoHolder
        /\ (dbpc[c] = "return" /\ dbpc'[c] = "idle") =>
              /\ mutex' = NoHolder
              /\ rows' = rows
              /\ outcome[c] = "err" => dbret'[c] = Err("closure")
              /\ (outcome[c] = "ok" /\ dbop[c].op = "write") => dbret'[c] = Ok(None)

C36_RoleStep ==
    \A c \in DbCallers :
        /\ (dbpc'[c] # dbpc[c] /\ dbop'[c].op = "role") => rows' = rows
        /\ (dbpc[c] = "return" /\ dbpc'[c] = "idle" /\ dbop[c].op = "role") =>
              dbret'[c] = IF outcome[c] = "err" THEN Err("closure")
                          ELSE IF dbop[c].key \in rows THEN Ok(StoredRole[dbop[c].key])
                          ELSE Err("SwapNotFound")

\* C36: Sqlite::role(swap_id) returns the role of the row whose swap_id is
\* the key, Error::SwapNotFound when there is no such row, and changes no
\* row.
C36_RoleOfStoredSwap == [][C36_RoleStep]_vars

\* Only k2 is stored: role(k2) returned its role, role(k1) SwapNotFound.
C36_Witness ==
    /\ rows = {"k2"}
    /\ dbop["c1"] = [op |-> "role", key |-> "k2",
                     value |-> Some([swap_id |-> "k2", role |-> "Bob"])]
    /\ dbpc["c1"] = "idle" /\ dbret["c1"] = Ok("Bob")
    /\ dbop["c2"].op = "role" /\ dbop["c2"].key = "k1"
    /\ dbpc["c2"] = "idle" /\ dbret["c2"] = Err("SwapNotFound")

(***************************************************************************)
(* Properties of Sqlite::new (specification NewSpec).                      *)
(***************************************************************************)
\* The file records every migration as applied.
Migrated(f) == f.exists /\ f.applied = Migrations

\* C21: a step of Sqlite::new on a file that records every migration leaves
\* the file (schema, applied migrations, rows) and the directories as they
\* are, and a call that found such a file returns Ok; what such a call
\* found is still there afterwards.
C21_MigratedStep ==
    (newpc' # newpc /\ Migrated(dbfile)) => (dbfile' = dbfile /\ tree' = tree)

Opened_Ok ==
    /\ tree = PathDepth
    /\ dbfile.exists
    /\ dbfile.applied = Migrations
    /\ dbfile.schema = Migrations

SavedIds == {e.id : e \in saved}
AnnouncedIds == {announced[i].id : i \in DOMAIN announced}

\* C20: every answered POST was answered 201 with Location: /swaps/{id},
\* where id is the id of that request, under which its body was saved and
\* for which communication was started; communication is started only for
\* what is saved; and the ids of different requests differ.
C20_SavedThenAnnouncedThenCreated ==
    /\ \A r \in Requests :
         replies[r] # NoReply =>
            /\ replies[r].status = 201
            /\ replies[r].location = <<"/swaps/", requests[r].id>>
            /\ requests[r].id \in LocalSwapIds
            /\ [id |-> requests[r].id, body |-> requests[r].body] \in saved
            /\ \E i \in DOMAIN announced :
                  announced[i] = [id |-> requests[r].id, body |-> requests[r].body]
    /\ \A i \in DOMAIN announced : announced[i] \in saved
    /\ \A r \in Requests :
         /\ requests[r].pc \in {"none", "save"} => requests[r].id \notin SavedIds
         /\ requests[r].pc \in {"none", "save", "initiate"} =>
               requests[r].id \notin AnnouncedIds
         /\ requests[r].pc # "done" => replies[r] = NoReply
    /\ \A r1, r2 \in Requests :
         (r1 # r2 /\ requests[r1].id # NoId) => requests[r1].id # requests[r2].id
    /\ \A e1, e2 \in saved : e1.id = e2.id => e1 = e2

\* One POST has been answered while the other, with the same body, is saved
\* and not yet announced.
C20_Witness ==
    /\ replies["r1"] # NoReply /\ replies["r1"].location = <<"/swaps/", requests["r1"].id>>
    /\ requests["r2"].pc = "initiate" /\ requests["r2"].body = requests["r1"].body
    /\ Len(announced) = 1

(***************************************************************************)
(* Properties of with_swap_types (specification TypesSpec).                *)
(***************************************************************************)
\* The supported combinations: alpha ledger, beta ledger, alpha asset, beta
\* asset.
SupportedCombinations ==
    { <<"Bitcoin", "Ethereum", "Bitcoin", "Ether">>,
      <<"Bitcoin", "Ethereum", "Bitcoin", "Erc20">>,
      <<"Ethereum", "Bitcoin", "Ether", "Bitcoin">>,
      <<"Ethereum", "Bitcoin", "Erc20", "Bitcoin">> }

CombinationOf(m) == <<m.alpha_ledger, m.beta_ledger, m.alpha_asset, m.beta_asset>>

\* The type that stands for a ledger kind, an asset kind and a role.
LedgerType(k) == k
AssetType(k) ==
    CASE k = "Bitcoin" -> "BitcoinQuantity"
      [] k = "Ether" -> "EtherQuantity"
      [] k = "Erc20" -> "Erc20Token"
RoleState(r) == IF r = "Alice" THEN "alice::State" ELSE "bob::State"

\* C23: every evaluation of with_swap_types on a supported combination, for
\* either role, has invoked the body exactly once, with AL, BL, AA, BA the
\* types of the combination and ROLE the state type of the role over them,
\* and has not panicked.
C23_BodyInvokedOnceWithTypes ==
    \A i \in DOMAIN expanded :
        LET m == expanded[i].metadata
            inv == expanded[i].invoked IN
        CombinationOf(m) \in SupportedCombinations =>
            /\ Len(inv) = 1
            /\ inv[1].AL = LedgerType(m.alpha_ledger)
            /\ inv[1].BL = LedgerType(m.beta_ledger)
            /\ inv[1].AA = AssetType(m.alpha_asset)
            /\ inv[1].BA = AssetType(m.beta_asset)
            /\ inv[1].ROLE = <<RoleState(m.role), inv[1].AL, inv[1].BL, inv[1].AA, inv[1].BA>>
            /\ (i = Len(expanded) => ~panicked)

\* Two evaluations: Erc20 for Bitcoin as Bob, then Bitcoin for Ether as
\* Alice; each invoked the body once.
C23_Witness ==
    /\ Len(expanded) = 2
    /\ CombinationOf(expanded[1].metadata) = <<"Ethereum", "Bitcoin", "Erc20", "Bitcoin">>
    /\ expanded[1].metadata.role = "Bob"
    /\ expanded[1].invoked[1].ROLE[1] = "bob::State"
    /\ CombinationOf(expanded[2].metadata) = <<"Bitcoin", "Ethereum", "Bitcoin", "Ether">>
    /\ expanded[2].metadata.role = "Alice"
    /\ Len(expanded[2].invoked) = 1


\* C37: an evaluation of with_swap_types on metadata outside the four
\* supported combinations (a ledger with an asset of another ledger, both
\* sides on one ledger, ...) invokes the body not once and ends in
\* unimplemented!(), after which nothing is evaluated; and nothing but such
\* an evaluation panics.
C37_UnsupportedIsUnimplemented ==
    /\ \A i \in DOMAIN expanded :
         CombinationOf(expanded[i].metadata) \notin SupportedCombinations =>
             /\ expanded[i].invoked = <<>>
             /\ i = Len(expanded)
             /\ panicked
             /\ with_swap_types(expanded[i].metadata) = Unimplemented
    /\ panicked =>
         /\ expanded # <<>>
         /\ CombinationOf(expanded[Len(expanded)].metadata) \notin SupportedCombinations

\* After a supported swap, with_swap_types was evaluated on Ether on the
\* Bitcoin ledger (for Ether on Ethereum): no body invoked, unimplemented.
C37_Witness ==
    /\ Len(expanded) = 2 /\ panicked
    /\ Len(expanded[1].invoked) = 1
    /\ CombinationOf(expanded[2].metadata) = <<"Bitcoin", "Ethereum", "Ether", "Ether">>
    /\ expanded[2].invoked = <<>>

====
